---------------------------- MODULE Spec2Model ----------------------------
(***************************************************************************)
(* The asynchronous processing pipeline of the audience query management  *)
(* system: the queue service (server/services/queueService.js), message   *)
(* ingestion (server/integrators/channelIntegrator.js), the queue workers *)
(* (server/workers/index.js) and the tagging and priority services        *)
(* (server/services/priorityService.js).                                  *)
(*                                                                         *)
(* Texts are TLA+ strings; the string functions of the code (toLowerCase, *)
(* includes, match, the word tokenizer) are computed character by         *)
(* character.  Fractional priority scores are kept in tenths.             *)
(***************************************************************************)
EXTENDS Integers, Sequences, FiniteSets, TLC

(***************************************************************************)
(* Bounds of the model.                                                    *)
(***************************************************************************)
MaxRecords == 1
MaxFaults == 1
MaxJobs == 3
MaxActive == 2

(***************************************************************************)
(* String helpers.                                                         *)
(***************************************************************************)
UpperChars == "ABCDEFGHIJKLMNOPQRSTUVWXYZ"
LowerChars == "abcdefghijklmnopqrstuvwxyz"
DigitChars == "0123456789_"

CharAt(s, i) == SubSeq(s, i, i)

CharsOf(s) == {CharAt(s, i) : i \in 1..Len(s)}

IsUpper(c) == c \in CharsOf(UpperChars)

LowerChar(c) ==
  IF IsUpper(c)
    THEN CharAt(LowerChars, CHOOSE i \in 1..Len(UpperChars) : CharAt(UpperChars, i) = c)
    ELSE c

RECURSIVE LowerFrom(_, _)
LowerFrom(s, i) ==
  IF i > Len(s) THEN "" ELSE LowerChar(CharAt(s, i)) \o LowerFrom(s, i + 1)

\* String.prototype.toLowerCase
toLowerCase(s) == LowerFrom(s, 1)

\* String.prototype.includes
includes(t, k) ==
  \E i \in 1..(Len(t) - Len(k) + 1) : SubSeq(t, i, i + Len(k) - 1) = k

\* String.prototype.trim().length === 0 for the blanks used here
IsBlank(s) == \A i \in 1..Len(s) : CharAt(s, i) = " "

\* (content.match(/[A-Z]/g) || []).length
CountUpper(s) == Cardinality({i \in 1..Len(s) : IsUpper(CharAt(s, i))})

\* (content.match(/http/gi) || []).length
CountHttp(s) ==
  LET l == toLowerCase(s)
  IN  Cardinality({i \in 1..(Len(l) - 3) : SubSeq(l, i, i + 3) = "http"})

IsWordChar(c) == c \in (CharsOf(UpperChars) \cup CharsOf(LowerChars) \cup CharsOf(DigitChars))

RECURSIVE TokScan(_, _, _, _)
TokScan(t, i, cur, acc) ==
  IF i > Len(t)
    THEN (IF cur = "" THEN acc ELSE Append(acc, cur))
    ELSE LET c == CharAt(t, i)
         IN  IF IsWordChar(c)
               THEN TokScan(t, i + 1, cur \o c, acc)
               ELSE TokScan(t, i + 1, "", IF cur = "" THEN acc ELSE Append(acc, cur))

\* natural.WordTokenizer.tokenize: the maximal runs of word characters
tokenize(t) == TokScan(t, 1, "", <<>>)

\* natural.PorterStemmer.stem, tabulated on the words of the keyword tables
\* and of the texts of Payloads; every other word of those is its own stem.
stem(w) ==
  CASE w = "please" -> "pleas"
    [] w = "require" -> "requir"
    [] w = "complaining" -> "complain"
    [] w = "unhappy" -> "unhappi"
    [] w = "dissatisfied" -> "dissatisfi"
    [] w = "disappointed" -> "disappoint"
    [] w = "angry" -> "angri"
    [] w = "frustrated" -> "frustrat"
    [] w = "issue" -> "issu"
    [] w = "terrible" -> "terribl"
    [] w = "awful" -> "aw"
    [] w = "horrible" -> "horribl"
    [] w = "thanks" -> "thank"
    [] w = "appreciate" -> "appreci"
    [] w = "amazing" -> "amaz"
    [] w = "wonderful" -> "wonder"
    [] w = "fantastic" -> "fantast"
    [] w = "excellent" -> "excel"
    [] w = "suggestion" -> "suggest"
    [] w = "improve" -> "improv"
    [] w = "improvement" -> "improv"
    [] w = "technical" -> "technic"
    [] w = "malfunction" -> "malfunct"
    [] w = "billing" -> "bill"
    [] w = "charge" -> "charg"
    [] w = "charges" -> "charg"
    [] w = "invoice" -> "invoic"
    [] w = "money" -> "monei"
    [] w = "subscription" -> "subscript"
    [] w = "renewal" -> "renew"
    [] w = "this" -> "thi"
    [] w = "is" -> "is"
    [] w = "website" -> "websit"
    [] w = "message" -> "messag"
    [] w = "here" -> "here"
    [] w = "free" -> "free"
    [] OTHER -> w

SeqToSet(s) == {s[i] : i \in 1..Len(s)}

RECURSIVE SumSeq(_)
SumSeq(s) == IF s = <<>> THEN 0 ELSE Head(s) + SumSeq(Tail(s))

Min(a, b) == IF a < b THEN a ELSE b
Max(a, b) == IF a > b THEN a ELSE b

(***************************************************************************)
(* Tagging service: analyzeAndTag.                                         *)
(***************************************************************************)
TAG_KEYWORDS ==
  [question |-> <<"question", "ask", "wonder", "curious", "how", "what", "why",
                  "when", "where", "who", "?">>,
   request |-> <<"request", "please", "need", "want", "require", "would like",
                 "could you", "can you", "help me">>,
   complaint |-> <<"complaint", "complaining", "unhappy", "dissatisfied",
                   "disappointed", "angry", "frustrated", "problem", "issue",
                   "wrong", "bad", "terrible", "awful", "horrible">>,
   compliment |-> <<"compliment", "thank", "thanks", "appreciate", "great",
                    "excellent", "amazing", "wonderful", "love", "fantastic",
                    "brilliant">>,
   feedback |-> <<"feedback", "suggest", "suggestion", "improve", "improvement",
                  "idea", "opinion", "think">>,
   technical_issue |-> <<"error", "bug", "broken", "not working", "crash",
                         "technical", "glitch", "malfunction", "defect", "fault">>,
   billing |-> <<"billing", "payment", "charge", "invoice", "bill", "refund",
                 "money", "cost", "price", "subscription", "renewal">>]

\* Object.keys(TAG_KEYWORDS): the categories in declaration order
TagOrder ==
  <<"question", "request", "complaint", "compliment", "feedback",
    "technical_issue", "billing">>

\* One keyword's contribution: 2 for a stemmed token match, 1 for a substring
KeywordScore(keyword, stemmedTokens, combinedText) ==
  (IF stem(keyword) \in stemmedTokens THEN 2 ELSE 0)
  + (IF includes(combinedText, keyword) THEN 1 ELSE 0)

tagScores(subject, content) ==
  LET combinedText == toLowerCase(subject \o " " \o content)
      tokens == tokenize(combinedText)
      stemmedTokens == {stem(tokens[i]) : i \in 1..Len(tokens)}
  IN  [tag \in SeqToSet(TagOrder) |->
         SumSeq([k \in 1..Len(TAG_KEYWORDS[tag]) |->
                   KeywordScore(TAG_KEYWORDS[tag][k], stemmedTokens, combinedText)])]

\* the forEach over tagScores: strictly greater keeps the first maximum
RECURSIVE PrimaryScan(_, _, _, _)
PrimaryScan(scores, i, maxScore, primaryTag) ==
  IF i > Len(TagOrder) THEN primaryTag
  ELSE IF scores[TagOrder[i]] > maxScore
         THEN PrimaryScan(scores, i + 1, scores[TagOrder[i]], TagOrder[i])
         ELSE PrimaryScan(scores, i + 1, maxScore, primaryTag)

RECURSIVE DetectedScan(_, _)
DetectedScan(scores, i) ==
  IF i > Len(TagOrder) THEN <<>>
  ELSE (IF scores[TagOrder[i]] > 0 THEN <<TagOrder[i]>> ELSE <<>>)
       \o DetectedScan(scores, i + 1)

\* variant: the default tag is not pushed when nothing matched
analyzeAndTagText_noDefault(subject, content) ==
  LET scores == tagScores(subject, content)
  IN  [tags |-> DetectedScan(scores, 1),
       primaryTag |-> PrimaryScan(scores, 1, 0, "other"),
       scores |-> scores]

analyzeAndTagText(subject, content) ==
  LET scores == tagScores(subject, content)
      detectedTags == DetectedScan(scores, 1)
  IN  IF Len(detectedTags) = 0
        THEN [tags |-> <<"other">>, primaryTag |-> "other", scores |-> scores]
        ELSE [tags |-> detectedTags,
              primaryTag |-> PrimaryScan(scores, 1, 0, "other"),
              scores |-> scores]

(***************************************************************************)
(* The texts the model feeds to the classification functions.  Each       *)
(* function of a text is tabulated over them once.                         *)
(***************************************************************************)
\* the raw messages handed to processIncomingMessage
Payloads ==
  {[subject |-> "", content |-> "hello there", channel |-> "email"],
   [subject |-> "Website Chat", content |-> "thanks, normal, whenever",
    channel |-> "chat"],
   [subject |-> "Help", content |-> "bad billing problem", channel |-> "email"],
   [subject |-> "Offer", content |-> "CLICK HERE ACT NOW FREE MONEY",
    channel |-> "social_media"],
   [subject |-> "", content |-> "  ", channel |-> "email"],
   [subject |-> "Ping", content |-> "", channel |-> "chat"]}

normalizeMessage(rawMessage, channel) ==
  [subject |-> IF rawMessage.subject = "" THEN "No Subject" ELSE rawMessage.subject,
   content |-> rawMessage.content,
   channel |-> channel]

Texts == {normalizeMessage(m, m.channel) : m \in Payloads}

TagTable ==
  [t \in {<<n.subject, n.content>> : n \in Texts} |->
     analyzeAndTagText(t[1], t[2])]

analyzeAndTag(subject, content) == TagTable[<<subject, content>>]

(***************************************************************************)
(* Priority service: detectPriority.  Scores are in tenths after the      *)
(* channel coefficient has been applied.                                   *)
(***************************************************************************)
PriorityLevels == <<"urgent", "high", "medium", "low">>

PRIORITY_KEYWORDS ==
  [urgent |-> [keywords |-> <<"urgent", "asap", "immediately", "critical",
                              "emergency", "as soon as possible", "right now">>,
               weight |-> 10],
   high |-> [keywords |-> <<"important", "soon", "quickly", "fast", "priority",
                            "significant">>,
             weight |-> 7],
   medium |-> [keywords |-> <<"normal", "regular", "standard">>, weight |-> 4],
   low |-> [keywords |-> <<"whenever", "no rush", "low priority", "not urgent">>,
            weight |-> 2]]

TAG_PRIORITY_MAP ==
  [complaint |-> "high", technical_issue |-> "high", billing |-> "high",
   question |-> "medium", request |-> "medium", feedback |-> "low",
   compliment |-> "low", other |-> "medium"]

\* the channel coefficients, times ten
CHANNEL_PRIORITY_MAP ==
  [phone |-> 15, chat |-> 13, email |-> 10, social_media |-> 12, community |-> 8]

NoTag == "none"

KeywordWeightText(combinedText) ==
  SumSeq([l \in 1..Len(PriorityLevels) |->
    LET e == PRIORITY_KEYWORDS[PriorityLevels[l]]
    IN  SumSeq([k \in 1..Len(e.keywords) |->
                  IF includes(combinedText, e.keywords[k]) THEN e.weight ELSE 0])])

KeywordWeightTable ==
  [t \in {<<n.subject, n.content>> : n \in Texts} |->
     KeywordWeightText(toLowerCase(t[1] \o " " \o t[2]))]

\* the keyword loop of detectPriority over `${subject} ${content}`
KeywordWeight(subject, content) == KeywordWeightTable[<<subject, content>>]

TagAdjust(primaryTag) ==
  IF primaryTag # NoTag /\ primaryTag \in DOMAIN TAG_PRIORITY_MAP
    THEN CASE TAG_PRIORITY_MAP[primaryTag] = "urgent" -> 20
           [] TAG_PRIORITY_MAP[primaryTag] = "high" -> 10
           [] TAG_PRIORITY_MAP[primaryTag] = "low" -> 0 - 10
           [] OTHER -> 0
    ELSE 0

\* the level of a score given in tenths
LevelOfTenths(t) ==
  IF t >= 800 THEN "urgent"
  ELSE IF t >= 600 THEN "high"
  ELSE IF t >= 300 THEN "medium"
  ELSE "low"

\* Math.round of a non-negative number of tenths
RoundTenths(t) == (t + 5) \div 10

\* variant: the score accumulates on the stored score instead of the base 50
detectPriority_cumulative(query) ==
  LET base == query.priorityScore + KeywordWeight(query.subject, query.content)
              + TagAdjust(query.primaryTag)
      scaled == IF query.channel \in DOMAIN CHANNEL_PRIORITY_MAP
                  THEN base * CHANNEL_PRIORITY_MAP[query.channel]
                  ELSE base * 10
      bonus == IF "complaint" \in SeqToSet(query.tags) THEN 150 ELSE 0
      priorityScore == Max(0, Min(1000, scaled + bonus))
  IN  [priority |-> LevelOfTenths(priorityScore),
       priorityScore |-> RoundTenths(priorityScore)]

detectPriority(query) ==
  LET base == 50 + KeywordWeight(query.subject, query.content)
              + TagAdjust(query.primaryTag)
      scaled == IF query.channel \in DOMAIN CHANNEL_PRIORITY_MAP
                  THEN base * CHANNEL_PRIORITY_MAP[query.channel]
                  ELSE base * 10
      bonus == IF "complaint" \in SeqToSet(query.tags) THEN 150 ELSE 0
      priorityScore == Max(0, Min(1000, scaled + bonus))
  IN  [priority |-> LevelOfTenths(priorityScore),
       priorityScore |-> RoundTenths(priorityScore)]

(***************************************************************************)
(* Workers: detectSpam and analyzeSentiment.                               *)
(***************************************************************************)
spamKeywords ==
  <<"click here", "limited time", "act now", "urgent action required",
    "congratulations", "you have won", "free money", "nigerian prince",
    "viagra", "cialis", "weight loss", "get rich quick">>

\* variant: a score of exactly 3 is not spam yet
detectSpamText_above3(content) ==
  LET lowerContent == toLowerCase(content)
      kw == SumSeq([k \in 1..Len(spamKeywords) |->
                      IF includes(lowerContent, spamKeywords[k]) THEN 1 ELSE 0])
      caps == IF 2 * CountUpper(content) > Len(content) /\ Len(content) > 20
                THEN 2 ELSE 0
      links == IF CountHttp(content) > 3 THEN 2 ELSE 0
      spamScore == kw + caps + links
  IN  [isSpam |-> spamScore > 3,
       spamScore |-> spamScore,
       confidence |-> Min(spamScore * 20, 100)]

detectSpamText(content) ==
  LET lowerContent == toLowerCase(content)
      kw == SumSeq([k \in 1..Len(spamKeywords) |->
                      IF includes(lowerContent, spamKeywords[k]) THEN 1 ELSE 0])
      caps == IF 2 * CountUpper(content) > Len(content) /\ Len(content) > 20
                THEN 2 ELSE 0
      links == IF CountHttp(content) > 3 THEN 2 ELSE 0
      spamScore == kw + caps + links
  IN  [isSpam |-> spamScore >= 3,
       spamScore |-> spamScore,
       confidence |-> Min(spamScore * 20, 100)]

SpamTable == [c \in {n.content : n \in Texts} |-> detectSpamText(c)]

detectSpam(content) == SpamTable[content]

\* the word scores of the sentiment package for the words of Payloads
Afinn(w) ==
  CASE w = "thanks" -> 2
    [] w = "bad" -> 0 - 3
    [] w = "problem" -> 0 - 2
    [] w = "free" -> 1
    [] OTHER -> 0

analyzeSentimentText(text) ==
  LET tokens == tokenize(toLowerCase(text))
      score == SumSeq([i \in 1..Len(tokens) |-> Afinn(tokens[i])])
  IN  [score |-> score,
       sentiment |-> IF score > 0 THEN "positive"
                     ELSE IF score < 0 THEN "negative" ELSE "neutral"]

SentimentTable ==
  [c \in {n.content : n \in Texts} |-> analyzeSentimentText(c)]

analyzeSentiment(text) == SentimentTable[text]

(***************************************************************************)
(* Queue service: the state of the two processes and of the broker.       *)
(***************************************************************************)
QUEUE_NAMES ==
  [QUERY_PROCESSING |-> "query-processing", TAGging |-> "tagging",
   SENTIMENT |-> "sentiment", PRIORITY |-> "priority",
   SPAM_DETECTION |-> "spam-detection", NOTIFICATION |-> "notification"]

Stages == {QUEUE_NAMES[k] : k \in DOMAIN QUEUE_NAMES}

\* the four classification stages, in the order the orchestrator adds to them
ClassStages == <<"tagging", "sentiment", "priority", "spam-detection">>

\* the processes that load queueService.js: server/index.js, workers/index.js
Procs == {"server", "worker"}

VARIABLES
  redisUp,     \* whether the Redis server accepts connections
  phase,       \* per process: where initRedis stands
  retries,     \* per process: reconnect attempts made by the Redis client
  queues,      \* per process: which of the six queue variables are non-null
  registered,  \* the stages whose queue has a processor installed
  workersDone, \* whether registerWorkers has been called
  store,       \* the Query collection: the record with _id i is store[i]
  jobs,        \* the jobs held by the broker, in creation order
  faultBudget, \* broker/database failures the environment may still cause
  result,      \* outcome of the last call made to the server process
  teams,       \* the Team collection: the team with _id t is teams[t]
  users,       \* the User collection: the user with _id u is users[u]
  sweeps,      \* per sweeper: the escalation sweep it is running
  assigning,   \* per request handler: the assignment it is carrying out
  now          \* the wall clock, in minutes

vars == <<redisUp, phase, retries, queues, registered, workersDone, store,
          jobs, faultBudget, result, teams, users, sweeps, assigning, now>>

\* what the queue service, the integrator and the workers never touch
RoutingFrame == UNCHANGED <<teams, users, sweeps, assigning, now>>

NoQueues == [s \in Stages |-> FALSE]
AllQueues == [s \in Stages |-> TRUE]

NoResult == [op |-> "none", ok |-> TRUE, error |-> "", id |-> 0]

\* the sweepers: processes that call processEscalations
Sweepers == {"s1", "s2"}

IdleSweep == [state |-> "idle", cands |-> <<>>, pos |-> 0, escalated |-> <<>>]

\* the request handlers that carry out assignments side by side
Handlers == {"h1", "h2"}

IdleAssignment ==
  [state |-> "idle", kind |-> "", q |-> 0, doc |-> <<>>, user |-> 0, team |-> 0,
   totalAssigned |-> 0, totalQueries |-> 0]

NoAssignments == [h \in Handlers |-> IdleAssignment]

\* no team and no user exists, no sweep runs, the clock stands at its origin
NoRouting ==
  /\ teams = <<>>
  /\ users = <<>>
  /\ sweeps = [w \in Sweepers |-> IdleSweep]
  /\ assigning = NoAssignments
  /\ now = 0

\* variant: the strategy never stops retrying
reconnectStrategy_unbounded(n) == Min(n * 100, 3000)

\* reconnectStrategy of the Redis client; -1 stands for false (stop retrying)
reconnectStrategy(n) == IF n > 3 THEN 0 - 1 ELSE Min(n * 100, 3000)

\* defaultJobOptions.attempts
attempts == 3

\* variant: an unknown level gets the lowest value instead of the default
getPriorityValue_noDefault(priority) ==
  CASE priority = "urgent" -> 10
    [] priority = "high" -> 7
    [] priority = "medium" -> 4
    [] priority = "low" -> 1
    [] OTHER -> 0

\* getPriorityValue
getPriorityValue(priority) ==
  CASE priority = "urgent" -> 10
    [] priority = "high" -> 7
    [] priority = "medium" -> 4
    [] priority = "low" -> 1
    [] OTHER -> 4

\* a job as queue.add creates it
NewJob(queue, queryId, content, priority) ==
  [queue |-> queue, queryId |-> queryId, content |-> content,
   priority |-> priority, state |-> "waiting", attemptsMade |-> 0,
   snap |-> <<>>, seen |-> <<>>, ret |-> <<>>]

(***************************************************************************)
(* initRedis, per process.                                                 *)
(***************************************************************************)
\* redis.createClient and redisClient.connect()
InitRedisCall(p) ==
  /\ phase[p] = "idle"
  /\ phase' = [phase EXCEPT ![p] = "connecting"]
  /\ UNCHANGED <<redisUp, retries, queues, registered, workersDone, store,
                 jobs, faultBudget, result>>
  /\ RoutingFrame

\* a connection attempt is refused and the reconnect strategy grants a retry
ConnectRetry(p) ==
  /\ phase[p] = "connecting"
  /\ ~redisUp
  /\ reconnectStrategy(retries[p]) >= 0
  /\ retries' = [retries EXCEPT ![p] = @ + 1]
  /\ UNCHANGED <<redisUp, phase, queues, registered, workersDone, store, jobs,
                 faultBudget, result>>
  /\ RoutingFrame

\* variant: the queues are constructed although no connection was confirmed
InitRedisCatch_queuesBuilt(p) ==
  /\ phase' = [phase EXCEPT ![p] = "down"]
  /\ queues' = [queues EXCEPT ![p] = AllQueues]
  /\ UNCHANGED <<redisUp, retries, registered, workersDone, store, jobs,
                 faultBudget, result>>
  /\ RoutingFrame

\* the state initRedis leaves when connect() rejects: the catch block
InitRedisCatch(p) ==
  /\ phase' = [phase EXCEPT ![p] = "down"]
  /\ UNCHANGED <<redisUp, retries, queues, registered, workersDone, store,
                 jobs, faultBudget, result>>
  /\ RoutingFrame

\* the reconnect strategy returns false and connect() rejects
InitRedisGiveUp(p) ==
  /\ phase[p] = "connecting"
  /\ ~redisUp
  /\ reconnectStrategy(retries[p]) < 0
  /\ InitRedisCatch(p)

\* the 5 s timeoutPromise wins the race against connect()
InitRedisTimeout(p) ==
  /\ phase[p] = "connecting"
  /\ ~redisUp
  /\ reconnectStrategy(retries[p]) >= 0
  /\ InitRedisCatch(p)

\* variant: when one creation fails, the queues created before it are kept
InitRedisConnected_partial(p) ==
  /\ phase[p] = "connecting"
  /\ redisUp
  /\ phase' = [phase EXCEPT ![p] = "up"]
  /\ \/ /\ queues' = [queues EXCEPT ![p] = AllQueues]
        /\ faultBudget' = faultBudget
     \/ /\ faultBudget > 0
        /\ faultBudget' = faultBudget - 1
        /\ queues' = [queues EXCEPT ![p] =
                        [s \in DOMAIN NoQueues |->
                           s = QUEUE_NAMES.QUERY_PROCESSING]]
  /\ UNCHANGED <<redisUp, retries, registered, workersDone, store, jobs, result>>
  /\ RoutingFrame

\* connect() resolves; the six queues are created, or none if one creation
\* returned null
InitRedisConnected(p) ==
  /\ phase[p] = "connecting"
  /\ redisUp
  /\ phase' = [phase EXCEPT ![p] = "up"]
  /\ \/ /\ queues' = [queues EXCEPT ![p] = AllQueues]
        /\ faultBudget' = faultBudget
     \/ /\ faultBudget > 0
        /\ faultBudget' = faultBudget - 1
        /\ queues' = [queues EXCEPT ![p] = NoQueues]
  /\ UNCHANGED <<redisUp, retries, registered, workersDone, store, jobs, result>>
  /\ RoutingFrame

(***************************************************************************)
(* The enqueue operations of the queue service, called in the server.     *)
(***************************************************************************)
QueueError(label) == label \o " queue not available (Redis not connected)"

\* queue.add on a constructed queue: the job is stored by the broker; with
\* the broker unreachable the returned promise stays pending
QueueAdd(job) ==
  IF redisUp
    THEN [ok |-> TRUE, error |-> "", added |-> <<job>>]
    ELSE [ok |-> FALSE, error |-> "pending", added |-> <<>>]

\* the guard shared by the six add functions: throw when the queue is null
Enqueue(label, job) ==
  IF ~queues["server"][job.queue]
    THEN [ok |-> FALSE, error |-> QueueError(label), added |-> <<>>]
    ELSE QueueAdd(job)

addQueryToQueue(id, queryData) ==
  Enqueue("Query",
          NewJob(QUEUE_NAMES.QUERY_PROCESSING, id, queryData.content,
                 getPriorityValue(queryData.priority)))

addTaggingJob(queryId, content) ==
  Enqueue("Tagging", NewJob(QUEUE_NAMES.TAGging, queryId, content, 0))

addSentimentJob(queryId, content) ==
  Enqueue("Sentiment", NewJob(QUEUE_NAMES.SENTIMENT, queryId, content, 0))

addPriorityJob(queryId, content) ==
  Enqueue("Priority", NewJob(QUEUE_NAMES.PRIORITY, queryId, content, 0))

addSpamJob(queryId, content) ==
  Enqueue("Spam", NewJob(QUEUE_NAMES.SPAM_DETECTION, queryId, content, 0))

addNotificationJob(queryId, content) ==
  Enqueue("Notification", NewJob(QUEUE_NAMES.NOTIFICATION, queryId, content, 0))

\* the names of the add functions
EnqueueOps ==
  {"addQueryToQueue", "addTaggingJob", "addSentimentJob", "addPriorityJob",
   "addSpamJob", "addNotificationJob"}

\* a caller in the server process invokes one of the add functions
Call(op, out) ==
  /\ Len(jobs) < MaxJobs
  /\ jobs' = jobs \o out.added
  /\ result' = [op |-> op, ok |-> out.ok, error |-> out.error,
                id |-> IF out.ok THEN out.added[1].queryId ELSE 0]
  /\ UNCHANGED <<redisUp, phase, retries, queues, registered, workersDone,
                 store, faultBudget>>
  /\ RoutingFrame

CallAddQueryToQueue ==
  \E q \in 1..Len(store) : Call("addQueryToQueue", addQueryToQueue(q, store[q]))

CallAddTaggingJob ==
  \E q \in 1..Len(store) : Call("addTaggingJob", addTaggingJob(q, store[q].content))

CallAddSentimentJob ==
  \E q \in 1..Len(store) :
    Call("addSentimentJob", addSentimentJob(q, store[q].content))

CallAddPriorityJob ==
  \E q \in 1..Len(store) :
    Call("addPriorityJob", addPriorityJob(q, store[q].content))

CallAddSpamJob ==
  \E q \in 1..Len(store) : Call("addSpamJob", addSpamJob(q, store[q].content))

CallAddNotificationJob ==
  \E q \in 1..Len(store) :
    Call("addNotificationJob", addNotificationJob(q, store[q].content))

(***************************************************************************)
(* Channel integrator: processIncomingMessage.                             *)
(***************************************************************************)
\* new Query(normalizedData) with the status and priority the integrator
\* sets; the classification fields start unset
NewQuery(normalizedData) ==
  [subject |-> normalizedData.subject,
   content |-> normalizedData.content,
   channel |-> normalizedData.channel,
   status |-> "new",
   priority |-> "medium",
   priorityScore |-> 50,
   tags |-> <<>>,
   primaryTag |-> NoTag,
   sentiment |-> <<>>,
   spamDetection |-> <<>>,
   assignedTeam |-> 0,
   assignedTo |-> 0,
   isEscalated |-> FALSE,
   escalatedAt |-> <<>>,
   escalationReason |-> "",
   receivedAt |-> now,
   firstResponseAt |-> <<>>,
   responseTime |-> <<>>,
   deleted |-> FALSE,
   history |-> <<>>,
   rev |-> 0]

\* variant: the job is enqueued first and the save that follows fails
CreateAndEnqueue_enqueueFirst(normalizedData) ==
  LET query == NewQuery(normalizedData)
      id == Len(store) + 1
      out == addQueryToQueue(id, query)
  IN  /\ store' = store
      /\ jobs' = jobs \o out.added
      /\ result' = [op |-> "processIncomingMessage", ok |-> FALSE,
                    error |-> "save failed", id |-> 0]

\* what the try block does after validation: save the query, then enqueue;
\* an exception of addQueryToQueue is rethrown to the caller
CreateAndEnqueue(normalizedData) ==
  LET query == NewQuery(normalizedData)
      id == Len(store) + 1
      out == addQueryToQueue(id, query)
  IN  /\ store' = Append(store, query)
      /\ jobs' = jobs \o out.added
      /\ result' = [op |-> "processIncomingMessage", ok |-> out.ok,
                    error |-> out.error, id |-> IF out.ok THEN id ELSE 0]

\* variant: the content is not validated
processIncomingMessage_unvalidated(rawMessage, channel) ==
  CreateAndEnqueue(normalizeMessage(rawMessage, channel))

processIncomingMessage(rawMessage, channel) ==
  LET normalizedData == normalizeMessage(rawMessage, channel)
  IN  IF normalizedData.content = "" \/ IsBlank(normalizedData.content)
        THEN /\ result' = [op |-> "processIncomingMessage", ok |-> FALSE,
                           error |-> "Message content is required", id |-> 0]
             /\ UNCHANGED <<store, jobs>>
        ELSE CreateAndEnqueue(normalizedData)

Ingest ==
  /\ Len(store) < MaxRecords
  /\ \E m \in Payloads : processIncomingMessage(m, m.channel)
  /\ UNCHANGED <<redisUp, phase, retries, queues, registered, workersDone,
                 faultBudget>>
  /\ RoutingFrame

(***************************************************************************)
(* Worker process start-up: registerWorkers.                               *)
(***************************************************************************)
\* the queue properties of module.exports, read when queueService.js is
\* loaded: the queue variables are still null at that point
ExportedQueues == NoQueues

\* the stages registerWorkers and registerNotificationWorker subscribe to
ProcessorStages == Stages

\* the .then of initRedis() in workers/index.js; initRedis resolves whether
\* or not the connection succeeded
registerWorkers ==
  /\ phase["worker"] \in {"up", "down"}
  /\ ~workersDone
  /\ workersDone' = TRUE
  /\ registered' = IF ~ExportedQueues[QUEUE_NAMES.QUERY_PROCESSING]
                     THEN registered
                     ELSE {s \in ProcessorStages : ExportedQueues[s]}
  /\ UNCHANGED <<redisUp, phase, retries, queues, store, jobs, faultBudget, result>>
  /\ RoutingFrame

Init ==
  /\ redisUp \in BOOLEAN
  /\ phase = [p \in Procs |-> "idle"]
  /\ retries = [p \in Procs |-> 0]
  /\ queues = [p \in Procs |-> NoQueues]
  /\ registered = {}
  /\ workersDone = FALSE
  /\ store = <<>>
  /\ jobs = <<>>
  /\ faultBudget = MaxFaults
  /\ result = NoResult
  /\ NoRouting

Next ==
  \/ \E p \in Procs : InitRedisCall(p)
  \/ \E p \in Procs : ConnectRetry(p)
  \/ \E p \in Procs : InitRedisGiveUp(p)
  \/ \E p \in Procs : InitRedisTimeout(p)
  \/ \E p \in Procs : InitRedisConnected(p)
  \/ registerWorkers
  \/ Ingest
  \/ CallAddQueryToQueue
  \/ CallAddTaggingJob
  \/ CallAddSentimentJob
  \/ CallAddPriorityJob
  \/ CallAddSpamJob
  \/ CallAddNotificationJob

Spec == Init /\ [][Next]_vars

(***************************************************************************)
(* Persistence: a handler works on the document it loaded with findById;  *)
(* save() writes the paths that handler modified and appends the history  *)
(* entries it pushed.                                                      *)
(***************************************************************************)
IsPrefix(a, b) == Len(a) <= Len(b) /\ SubSeq(b, 1, Len(a)) = a

Save(stored, snap, doc) ==
  [stored EXCEPT
     !.status = IF doc.status # snap.status THEN doc.status ELSE @,
     !.priority = IF doc.priority # snap.priority THEN doc.priority ELSE @,
     !.priorityScore = IF doc.priorityScore # snap.priorityScore
                         THEN doc.priorityScore ELSE @,
     !.tags = IF doc.tags # snap.tags THEN doc.tags ELSE @,
     !.primaryTag = IF doc.primaryTag # snap.primaryTag THEN doc.primaryTag ELSE @,
     !.sentiment = IF doc.sentiment # snap.sentiment THEN doc.sentiment ELSE @,
     !.spamDetection = IF doc.spamDetection # snap.spamDetection
                         THEN doc.spamDetection ELSE @,
     !.assignedTeam = IF doc.assignedTeam # snap.assignedTeam
                        THEN doc.assignedTeam ELSE @,
     !.assignedTo = IF doc.assignedTo # snap.assignedTo THEN doc.assignedTo ELSE @,
     !.isEscalated = IF doc.isEscalated # snap.isEscalated
                       THEN doc.isEscalated ELSE @,
     !.escalatedAt = IF doc.escalatedAt # snap.escalatedAt
                       THEN doc.escalatedAt ELSE @,
     !.escalationReason = IF doc.escalationReason # snap.escalationReason
                            THEN doc.escalationReason ELSE @,
     !.firstResponseAt = IF doc.firstResponseAt # snap.firstResponseAt
                           THEN doc.firstResponseAt ELSE @,
     !.responseTime = IF doc.responseTime # snap.responseTime
                        THEN doc.responseTime ELSE @,
     !.history = IF IsPrefix(snap.history, doc.history)
                   THEN @ \o SubSeq(doc.history, Len(snap.history) + 1,
                                    Len(doc.history))
                   ELSE doc.history,
     !.rev = IF doc = snap THEN @ ELSE @ + 1]

RECURSIVE Join(_)
Join(s) ==
  IF s = <<>> THEN ""
  ELSE IF Len(s) = 1 THEN s[1] ELSE s[1] \o ", " \o Join(Tail(s))

HistoryEntry(action, notes) ==
  [action |-> action, performedBy |-> "system", notes |-> notes]

(***************************************************************************)
(* What each handler does to the document it loaded.                      *)
(***************************************************************************)
applyTagsToQuery(query) ==
  LET taggingResult == analyzeAndTag(query.subject, query.content)
  IN  [query EXCEPT
         !.tags = taggingResult.tags,
         !.primaryTag = taggingResult.primaryTag,
         !.history = Append(@, HistoryEntry("Auto-tagged",
                       "Tags: " \o Join(taggingResult.tags) \o ", Primary: "
                       \o taggingResult.primaryTag))]

applyPriorityToQuery(query) ==
  LET priorityResult == detectPriority(query)
  IN  [query EXCEPT
         !.priority = priorityResult.priority,
         !.priorityScore = priorityResult.priorityScore,
         !.history = Append(@, HistoryEntry("Priority detected",
                       "Priority: " \o priorityResult.priority \o " (Score: "
                       \o ToString(priorityResult.priorityScore) \o ")"))]

\* variant: the sentiment processor also closes the record
applySentiment_closing(query, content) ==
  [query EXCEPT !.sentiment = <<analyzeSentiment(content)>>,
                !.status = "closed"]

applySentiment(query, content) ==
  [query EXCEPT !.sentiment = <<analyzeSentiment(content)>>]

\* variant: the spam entry replaces the history instead of being pushed
applySpam_historyAssigned(query, content) ==
  LET spamResult == detectSpam(content)
      marked == [query EXCEPT !.spamDetection = <<spamResult>>]
  IN  IF spamResult.isSpam
        THEN [marked EXCEPT
                !.status = "closed",
                !.history = <<HistoryEntry("Auto-closed as spam",
                              "Spam score: " \o ToString(spamResult.spamScore)
                              \o ", Confidence: "
                              \o ToString(spamResult.confidence) \o "%")>>]
        ELSE marked

applySpam(query, content) ==
  LET spamResult == detectSpam(content)
      marked == [query EXCEPT !.spamDetection = <<spamResult>>]
  IN  IF spamResult.isSpam
        THEN [marked EXCEPT
                !.status = "closed",
                !.history = Append(@, HistoryEntry("Auto-closed as spam",
                              "Spam score: " \o ToString(spamResult.spamScore)
                              \o ", Confidence: "
                              \o ToString(spamResult.confidence) \o "%"))]
        ELSE marked

\* the document a classification handler hands to save()
Handle(job, query) ==
  CASE job.queue = QUEUE_NAMES.TAGging -> applyTagsToQuery(query)
    [] job.queue = QUEUE_NAMES.SENTIMENT -> applySentiment(query, job.content)
    [] job.queue = QUEUE_NAMES.PRIORITY -> applyPriorityToQuery(query)
    [] job.queue = QUEUE_NAMES.SPAM_DETECTION -> applySpam(query, job.content)

\* the value the handler returns, kept by the broker with the completed job
ReturnValue(job, doc) ==
  CASE job.queue = QUEUE_NAMES.TAGging ->
         [tags |-> doc.tags, primaryTag |-> doc.primaryTag]
    [] job.queue = QUEUE_NAMES.SENTIMENT -> doc.sentiment[1]
    [] job.queue = QUEUE_NAMES.PRIORITY ->
         [priority |-> doc.priority, priorityScore |-> doc.priorityScore]
    [] job.queue = QUEUE_NAMES.SPAM_DETECTION -> doc.spamDetection[1]

(***************************************************************************)
(* The broker's treatment of a job: attempts and outcome.                 *)
(***************************************************************************)
\* the handler threw: retry while attempts remain, else the failed set
FailAttempt(job) ==
  [job EXCEPT !.attemptsMade = @ + 1,
              !.state = IF job.attemptsMade + 1 < attempts
                          THEN "waiting" ELSE "failed",
              !.snap = <<>>]

\* the handler returned: the job is completed and keeps the return value;
\* seen records which version of the record, with which tags, it had loaded
Complete(job, ret) ==
  [job EXCEPT !.state = "completed",
              !.ret = <<ret>>,
              !.seen = <<[rev |-> job.snap[1].rev,
                          primaryTag |-> job.snap[1].primaryTag,
                          tags |-> job.snap[1].tags]>>,
              !.snap = <<>>]

ActiveCount ==
  Cardinality({k \in 1..Len(jobs) : jobs[k].state = "active"})

ActiveIn(queue) ==
  \E k \in 1..Len(jobs) : jobs[k].queue = queue /\ jobs[k].state = "active"

WorkerFrame == UNCHANGED <<redisUp, phase, retries, queues, registered,
                           workersDone, result, teams, users, sweeps,
                           assigning, now>>

\* the job the broker may hand to the stage's processor: one job at a time
\* per queue, new jobs of one priority value in the order they were added,
\* a retried job whenever its backoff delay has passed.  How the broker
\* orders jobs of different priority values is decided by the bull package:
\* either may come first
Dequeuable(j) ==
  /\ jobs[j].state = "waiting"
  /\ jobs[j].queue \in registered
  /\ ~ActiveIn(jobs[j].queue)
  /\ ActiveCount < MaxActive
  /\ \/ jobs[j].attemptsMade > 0
     \/ \A k \in 1..(j - 1) :
          \/ jobs[k].queue # jobs[j].queue
          \/ jobs[k].state # "waiting"
          \/ jobs[k].attemptsMade > 0
          \/ jobs[k].priority # jobs[j].priority

\* the processor is invoked and loads the record with Query.findById
Begin(j) ==
  /\ Dequeuable(j)
  /\ ~store[jobs[j].queryId].deleted
  /\ jobs' = [jobs EXCEPT ![j].state = "active",
                          ![j].snap = <<store[jobs[j].queryId]>>]
  /\ UNCHANGED <<store, faultBudget>>
  /\ WorkerFrame

\* Query.findById throws
BeginFault(j) ==
  /\ Dequeuable(j)
  /\ faultBudget > 0
  /\ faultBudget' = faultBudget - 1
  /\ jobs' = [jobs EXCEPT ![j] = FailAttempt(@)]
  /\ UNCHANGED store
  /\ WorkerFrame

\* the processor is invoked, Query.findById returns null and the processor
\* throws "Query not found"
BeginMissing(j) ==
  /\ Dequeuable(j)
  /\ store[jobs[j].queryId].deleted
  /\ jobs' = [jobs EXCEPT ![j] = FailAttempt(@)]
  /\ UNCHANGED <<store, faultBudget>>
  /\ WorkerFrame

\* variant: the spam stage is left out of the fan-out
FanOut_withoutSpam(queryId, query) ==
  <<NewJob(QUEUE_NAMES.TAGging, queryId, query.content, 0),
    NewJob(QUEUE_NAMES.SENTIMENT, queryId, query.content, 0),
    NewJob(QUEUE_NAMES.PRIORITY, queryId, query.content, 0)>>

\* the four jobs the orchestrator adds for a query, in the order of the
\* Promise.all array
FanOut(queryId, query) ==
  <<NewJob(QUEUE_NAMES.TAGging, queryId, query.content, 0),
    NewJob(QUEUE_NAMES.SENTIMENT, queryId, query.content, 0),
    NewJob(QUEUE_NAMES.PRIORITY, queryId, query.content, 0),
    NewJob(QUEUE_NAMES.SPAM_DETECTION, queryId, query.content, 0)>>

\* variant: a rejected add is swallowed instead of rethrown
FanOutSucceeds_swallowed(oks) == TRUE

\* Promise.all over the four adds, and the catch that rethrows: the handler
\* returns normally only if every add resolved
FanOutSucceeds(oks) == \A i \in 1..Len(oks) : oks[i]

RECURSIVE Added(_, _)
Added(newJobs, oks) ==
  IF newJobs = <<>> THEN <<>>
  ELSE (IF Head(oks) THEN <<Head(newJobs)>> ELSE <<>>)
       \o Added(Tail(newJobs), Tail(oks))

\* the process-query processor after the load: each add may be rejected by
\* the broker, independently of the others
ProcessQueryRun(j) ==
  /\ jobs[j].state = "active"
  /\ jobs[j].queue = QUEUE_NAMES.QUERY_PROCESSING
  /\ LET newJobs == FanOut(jobs[j].queryId, jobs[j].snap[1])
     IN  \E oks \in [1..Len(newJobs) -> BOOLEAN] :
           LET failed == Cardinality({i \in 1..Len(newJobs) : ~oks[i]})
           IN  /\ failed <= faultBudget
               /\ faultBudget' = faultBudget - failed
               /\ jobs' = [jobs EXCEPT ![j] =
                             IF FanOutSucceeds(oks)
                               THEN Complete(@, [success |-> TRUE])
                               ELSE FailAttempt(@)]
                          \o Added(newJobs, oks)
  /\ UNCHANGED store
  /\ WorkerFrame

\* a classification processor after the load: compute, mutate, save
ClassifyRun(j, queue) ==
  /\ jobs[j].state = "active"
  /\ jobs[j].queue = queue
  /\ LET doc == Handle(jobs[j], jobs[j].snap[1])
     IN  /\ store' = [store EXCEPT ![jobs[j].queryId] =
                        Save(@, jobs[j].snap[1], doc)]
         /\ jobs' = [jobs EXCEPT ![j] = Complete(@, ReturnValue(jobs[j], doc))]
  /\ UNCHANGED faultBudget
  /\ WorkerFrame

TagRun(j) == ClassifyRun(j, QUEUE_NAMES.TAGging)
SentimentRun(j) == ClassifyRun(j, QUEUE_NAMES.SENTIMENT)
PriorityRun(j) == ClassifyRun(j, QUEUE_NAMES.PRIORITY)
SpamRun(j) == ClassifyRun(j, QUEUE_NAMES.SPAM_DETECTION)

\* variant: save() writes the document and then throws
SaveFault_afterWrite(j) ==
  /\ jobs[j].state = "active"
  /\ jobs[j].queue \in SeqToSet(ClassStages)
  /\ faultBudget > 0
  /\ faultBudget' = faultBudget - 1
  /\ jobs' = [jobs EXCEPT ![j] = FailAttempt(@)]
  /\ store' = [store EXCEPT ![jobs[j].queryId] =
                 Save(@, jobs[j].snap[1], Handle(jobs[j], jobs[j].snap[1]))]
  /\ WorkerFrame

\* query.save() throws in a classification processor
SaveFault(j) ==
  /\ jobs[j].state = "active"
  /\ jobs[j].queue \in SeqToSet(ClassStages)
  /\ faultBudget > 0
  /\ faultBudget' = faultBudget - 1
  /\ jobs' = [jobs EXCEPT ![j] = FailAttempt(@)]
  /\ UNCHANGED store
  /\ WorkerFrame

(***************************************************************************)
(* The pipeline with the processors subscribed to their queues, and no    *)
(* broker or database failure.                                             *)
(***************************************************************************)
Subscribed ==
  /\ redisUp = TRUE
  /\ phase = [p \in Procs |-> "up"]
  /\ retries = [p \in Procs |-> 0]
  /\ queues = [p \in Procs |-> AllQueues]
  /\ registered = ProcessorStages
  /\ workersDone = TRUE
  /\ store = <<>>
  /\ jobs = <<>>
  /\ result = NoResult
  /\ NoRouting

WorkerInit == Subscribed /\ faultBudget = 0

WorkerNext ==
  \/ Ingest
  \/ \E j \in 1..Len(jobs) : Begin(j)
  \/ \E j \in 1..Len(jobs) : ProcessQueryRun(j)
  \/ \E j \in 1..Len(jobs) : TagRun(j)
  \/ \E j \in 1..Len(jobs) : SentimentRun(j)
  \/ \E j \in 1..Len(jobs) : PriorityRun(j)
  \/ \E j \in 1..Len(jobs) : SpamRun(j)

WorkerSpec == WorkerInit /\ [][WorkerNext]_vars

(***************************************************************************)
(* The same pipeline with failures of the broker and of the database, the *)
(* processors running one job at a time.                                   *)
(***************************************************************************)
BeginAlone(j) == ActiveCount = 0 /\ Begin(j)

RetryInit == Subscribed /\ faultBudget = MaxFaults

RetryNext ==
  \/ Ingest
  \/ \E j \in 1..Len(jobs) : BeginAlone(j)
  \/ \E j \in 1..Len(jobs) : BeginFault(j)
  \/ \E j \in 1..Len(jobs) : ProcessQueryRun(j)
  \/ \E j \in 1..Len(jobs) : TagRun(j)
  \/ \E j \in 1..Len(jobs) : SentimentRun(j)
  \/ \E j \in 1..Len(jobs) : PriorityRun(j)
  \/ \E j \in 1..Len(jobs) : SpamRun(j)
  \/ \E j \in 1..Len(jobs) : SaveFault(j)

RetrySpec == RetryInit /\ [][RetryNext]_vars

(***************************************************************************)
(* Routing service: findBestTeam, findBestUser, autoRouteAndAssign.  Team *)
(* scores are kept in halves: the workload penalty is 0.5 per record.     *)
(***************************************************************************)
\* null for a team or user reference
NoId == 0

\* Query.countDocuments({assignedTeam, status: {$in: [assigned, in_progress]}})
TeamQueryCount(t) ==
  Cardinality({q \in 1..Len(store) :
                 /\ store[q].assignedTeam = t
                 /\ store[q].status \in {"assigned", "in_progress"}})

\* the score findBestTeam gives a team, times two
TeamScore(t, query) ==
  (IF query.primaryTag # NoTag /\ query.primaryTag \in teams[t].handlesTags
     THEN 20 ELSE 0)
  + (IF query.channel \in teams[t].handlesChannels THEN 16 ELSE 0)
  + (IF query.priority \in teams[t].handlesPriorities THEN 10 ELSE 0)
  - TeamQueryCount(t)

\* variant: Team.find without the isActive filter
ActiveTeams_all == 1..Len(teams)

\* Team.find({ isActive: true }), in collection order
ActiveTeams == {t \in 1..Len(teams) : teams[t].isActive}

\* variant of the loop: a team that equals the best score replaces it
RECURSIVE TeamScan_lastWins(_, _, _, _)
TeamScan_lastWins(query, t, bestTeam, bestScore) ==
  IF t > Len(teams) THEN bestTeam
  ELSE IF t \in ActiveTeams /\ TeamScore(t, query) >= bestScore
              /\ TeamScore(t, query) > 0
         THEN TeamScan_lastWins(query, t + 1, t, TeamScore(t, query))
         ELSE TeamScan_lastWins(query, t + 1, bestTeam, bestScore)

\* the loop of findBestTeam over the teams found
RECURSIVE TeamScan(_, _, _, _)
TeamScan(query, t, bestTeam, bestScore) ==
  IF t > Len(teams) THEN bestTeam
  ELSE IF t \in ActiveTeams /\ TeamScore(t, query) > bestScore
         THEN TeamScan(query, t + 1, t, TeamScore(t, query))
         ELSE TeamScan(query, t + 1, bestTeam, bestScore)

findBestTeam(query) == TeamScan(query, 1, NoId, 0)

\* Query.countDocuments({assignedTo, status: {$in: [assigned, in_progress]}})
UserQueryCount(u) ==
  Cardinality({q \in 1..Len(store) :
                 /\ store[q].assignedTo = u
                 /\ store[q].status \in {"assigned", "in_progress"}})

\* the score findBestUser gives a user; the response times of the model
\* divide 100
UserScore(u) ==
  0 - UserQueryCount(u) * 10
  + (IF users[u].averageResponseTime > 0
       THEN 100 \div users[u].averageResponseTime ELSE 0)
  + (IF users[u].role = "specialist" THEN 5
     ELSE IF users[u].role = "manager" THEN 3 ELSE 0)

\* User.find({ team: team._id, isActive: true }), in collection order
TeamMembers(team) ==
  {u \in 1..Len(users) : users[u].team = team /\ users[u].isActive}

\* the loop of findBestUser: bestScore starts at -Infinity, so the first
\* user found is taken and a later one only with a strictly greater score
RECURSIVE UserScan(_, _, _)
UserScan(team, u, bestUser) ==
  IF u > Len(users) THEN bestUser
  ELSE IF u \in TeamMembers(team)
            /\ (bestUser = NoId \/ UserScore(u) > UserScore(bestUser))
         THEN UserScan(team, u + 1, u)
         ELSE UserScan(team, u + 1, bestUser)

findBestUser(team, query) ==
  IF TeamMembers(team) = {} THEN NoId ELSE UserScan(team, 1, NoId)

\* query.assign(userId, teamId, assignedBy) of the Query model
assign(query, userId, teamId) ==
  [query EXCEPT !.assignedTo = userId,
                !.assignedTeam = teamId,
                !.status = "assigned"]

\* variant: a record no team was found for is marked assigned all the same
RoutedQuery_markedAssigned(query, team, user) ==
  IF team = NoId
    THEN [query EXCEPT
            !.status = "assigned",
            !.history = Append(@,
              HistoryEntry("Auto-routing attempted",
                           "No suitable team found for auto-assignment"))]
  ELSE IF user = NoId
    THEN [query EXCEPT
            !.assignedTeam = team,
            !.status = "assigned",
            !.history = Append(@,
              HistoryEntry("Assigned to team",
                           "Auto-assigned to team: " \o teams[team].name
                           \o " (no available users)"))]
  ELSE [assign(query, user, team) EXCEPT
          !.history = Append(@,
            HistoryEntry("Auto-assigned",
                         "Auto-assigned to " \o users[user].name \o " in team "
                         \o teams[team].name))]

\* the document autoRouteAndAssign hands to its last save()
RoutedQuery(query, team, user) ==
  IF team = NoId
    THEN [query EXCEPT !.history = Append(@,
            HistoryEntry("Auto-routing attempted",
                         "No suitable team found for auto-assignment"))]
  ELSE IF user = NoId
    THEN [query EXCEPT
            !.assignedTeam = team,
            !.status = "assigned",
            !.history = Append(@,
              HistoryEntry("Assigned to team",
                           "Auto-assigned to team: " \o teams[team].name
                           \o " (no available users)"))]
  ELSE [assign(query, user, team) EXCEPT
          !.history = Append(@,
            HistoryEntry("Auto-assigned",
                         "Auto-assigned to " \o users[user].name \o " in team "
                         \o teams[team].name))]

\* autoRouteAndAssign on a loaded document: the record, the user counter
\* and the team counter it saves
autoRouteAndAssign(q, query) ==
  LET team == findBestTeam(query)
      user == IF team = NoId THEN NoId ELSE findBestUser(team, query)
      routed == RoutedQuery(query, team, user)
  IN  /\ store' = IF q > Len(store)
                    THEN Append(store, [routed EXCEPT !.rev = @ + 1])
                    ELSE [store EXCEPT ![q] = Save(@, query, routed)]
      /\ users' = IF user = NoId THEN users
                  ELSE [users EXCEPT ![user].totalAssigned = @ + 1]
      /\ teams' = IF user = NoId THEN teams
                  ELSE [teams EXCEPT ![team].totalQueries = @ + 1]

(***************************************************************************)
(* Escalation: shouldEscalate, escalateQuery, processEscalations.          *)
(***************************************************************************)
\* moment().diff(moment(query.receivedAt), 'hours'): whole hours
hoursSinceReceived(query, t) == (t - query.receivedAt) \div 60

\* priorityThresholds[query.priority] || escalationThresholdHours
EscalationThreshold(priority) ==
  CASE priority = "urgent" -> 1
    [] priority = "high" -> 4
    [] priority = "medium" -> 12
    [] priority = "low" -> 24
    [] OTHER -> 24

\* variant: the threshold has to be exceeded, not reached
shouldEscalate_strict(query, t) ==
  IF query.status \in {"resolved", "closed"} THEN FALSE
  ELSE IF query.isEscalated THEN FALSE
  ELSE hoursSinceReceived(query, t) > EscalationThreshold(query.priority)

shouldEscalate(query, t) ==
  IF query.status \in {"resolved", "closed"} THEN FALSE
  ELSE IF query.isEscalated THEN FALSE
  ELSE hoursSinceReceived(query, t) >= EscalationThreshold(query.priority)

\* variant: the flag is not looked at before escalating
escalateQuery_unguarded(query, t) ==
  LET reason == "Auto-escalated due to " \o query.priority
                \o " priority and response time"
  IN  [query EXCEPT
         !.isEscalated = TRUE,
         !.escalatedAt = <<t>>,
         !.status = "escalated",
         !.escalationReason = reason,
         !.history = Append(@, HistoryEntry("Query escalated", reason))]

\* the document escalateQuery hands to save(), or the one it was given
escalateQuery(query, t) ==
  IF query.isEscalated THEN query
  ELSE LET reason == "Auto-escalated due to " \o query.priority
                     \o " priority and response time"
       IN  [query EXCEPT
              !.isEscalated = TRUE,
              !.escalatedAt = <<t>>,
              !.status = "escalated",
              !.escalationReason = reason,
              !.history = Append(@, HistoryEntry("Query escalated", reason))]

\* Query.find({status: {$in: [new, assigned, in_progress]}, isEscalated: false})
IsPending(query) ==
  query.status \in {"new", "assigned", "in_progress"} /\ ~query.isEscalated

RECURSIVE PendingFrom(_)
PendingFrom(q) ==
  IF q > Len(store) THEN <<>>
  ELSE (IF IsPending(store[q]) THEN <<[id |-> q, doc |-> store[q]]>> ELSE <<>>)
       \o PendingFrom(q + 1)

\* the documents processEscalations loads
pendingQueries == PendingFrom(1)

(***************************************************************************)
(* The operations of the server: createQuery, autoAssignQuery,             *)
(* updateStatus, and the escalation sweep, with the clock.                 *)
(***************************************************************************)
MaxQueries == 2
MaxHistory == 4

\* the instants the clock passes through, in minutes
ClockInstants == <<0, 720>>

OpsFrame == UNCHANGED <<redisUp, phase, retries, queues, registered,
                        workersDone>>

Tick ==
  /\ \E i \in 1..(Len(ClockInstants) - 1) :
       now = ClockInstants[i] /\ now' = ClockInstants[i + 1]
  /\ UNCHANGED <<store, jobs, faultBudget, result, teams, users, sweeps, assigning>>
  /\ OpsFrame

\* createQuery of the query controller: validate, tag, prioritise and, with
\* autoAssign, route
createQuery(body, autoAssign) ==
  IF body.subject = "" \/ body.content = ""
    THEN UNCHANGED <<store, teams, users>>
    ELSE LET query == applyPriorityToQuery(applyTagsToQuery(NewQuery(body)))
         IN  IF autoAssign
               THEN autoRouteAndAssign(Len(store) + 1, query)
               ELSE /\ store' = Append(store, query)
                    /\ UNCHANGED <<teams, users>>

CreateQuery ==
  /\ Len(store) < MaxQueries
  /\ \E body \in Payloads : \E autoAssign \in BOOLEAN :
       createQuery(body, autoAssign)
  /\ UNCHANGED <<jobs, faultBudget, result, sweeps, assigning, now>>
  /\ OpsFrame

\* autoAssignQuery of the query controller: Query.findById, then
\* autoRouteAndAssign
AutoAssignQuery(q) ==
  /\ q \in 1..Len(store)
  /\ Len(store[q].history) < MaxHistory
  /\ autoRouteAndAssign(q, store[q])
  /\ UNCHANGED <<jobs, faultBudget, result, sweeps, assigning, now>>
  /\ OpsFrame

\* query.updateStatus(status, userId, notes) of the Query model
updateStatus(query, status) ==
  [query EXCEPT !.status = status,
                !.history = Append(@, HistoryEntry("Status updated", status))]

\* variant: every entry into in_progress stamps the first response
trackFirstResponse_everyEntry(query, status, at) ==
  IF status = "in_progress"
    THEN [query EXCEPT !.firstResponseAt = <<at>>,
                       !.responseTime = <<at - query.receivedAt>>]
    ELSE query

\* "Track first response time" of the controller: the clock counts minutes,
\* so Math.floor((Date.now() - receivedAt) / (1000 * 60)) is the difference
trackFirstResponse(query, status, at) ==
  IF status = "in_progress" /\ query.firstResponseAt = <<>>
    THEN [query EXCEPT !.firstResponseAt = <<at>>,
                       !.responseTime = <<at - query.receivedAt>>]
    ELSE query

\* updateStatus of the query controller
UpdateStatus(q, status) ==
  /\ q \in 1..Len(store)
  /\ Len(store[q].history) < MaxHistory
  /\ store' = [store EXCEPT ![q] =
                 Save(@, @, updateStatus(trackFirstResponse(@, status, now),
                                         status))]
  /\ UNCHANGED <<jobs, faultBudget, result, teams, users, sweeps, assigning, now>>
  /\ OpsFrame

\* a caller loads a record and runs escalateQuery on it
EscalateQueryCall(q) ==
  /\ q \in 1..Len(store)
  /\ Len(store[q].history) < MaxHistory
  /\ store' = [store EXCEPT ![q] = Save(@, @, escalateQuery(@, now))]
  /\ UNCHANGED <<jobs, faultBudget, result, teams, users, sweeps, assigning, now>>
  /\ OpsFrame

\* processEscalations starts: the pending records are loaded
SweepLoad(w) ==
  /\ sweeps[w].state # "running"
  /\ sweeps' = [sweeps EXCEPT ![w] =
                  [state |-> "running", cands |-> pendingQueries, pos |-> 1,
                   escalated |-> <<>>]]
  /\ UNCHANGED <<store, jobs, faultBudget, result, teams, users, assigning, now>>
  /\ OpsFrame

\* one iteration of the for loop of processEscalations
SweepStep(w) ==
  /\ sweeps[w].state = "running"
  /\ sweeps[w].pos <= Len(sweeps[w].cands)
  /\ LET c == sweeps[w].cands[sweeps[w].pos]
     IN  IF shouldEscalate(c.doc, now)
           THEN /\ store' = [store EXCEPT ![c.id] =
                               Save(@, c.doc, escalateQuery(c.doc, now))]
                /\ sweeps' = [sweeps EXCEPT ![w].pos = @ + 1,
                                            ![w].escalated = Append(@, c.id)]
           ELSE /\ store' = store
                /\ sweeps' = [sweeps EXCEPT ![w].pos = @ + 1]
  /\ UNCHANGED <<jobs, faultBudget, result, teams, users, assigning, now>>
  /\ OpsFrame

\* save() throws in escalateQuery: the exception leaves processEscalations
SweepSaveFault(w) ==
  /\ sweeps[w].state = "running"
  /\ sweeps[w].pos <= Len(sweeps[w].cands)
  /\ shouldEscalate(sweeps[w].cands[sweeps[w].pos].doc, now)
  /\ faultBudget > 0
  /\ faultBudget' = faultBudget - 1
  /\ sweeps' = [sweeps EXCEPT ![w].state = "aborted"]
  /\ UNCHANGED <<store, jobs, result, teams, users, assigning, now>>
  /\ OpsFrame

\* processEscalations returns the escalated queries
SweepReturn(w) ==
  /\ sweeps[w].state = "running"
  /\ sweeps[w].pos > Len(sweeps[w].cands)
  /\ sweeps' = [sweeps EXCEPT ![w].state = "done"]
  /\ UNCHANGED <<store, jobs, faultBudget, result, teams, users, assigning, now>>
  /\ OpsFrame

\* variant: the entry is put in front of the history
manualAssign_unshift(query, userId, teamId, assignedBy) ==
  [assign(query, userId, teamId) EXCEPT
     !.history = <<[action |-> "Manually assigned", performedBy |-> assignedBy,
                    notes |-> "Manually assigned by user " \o assignedBy]>>
                 \o @]

\* the document manualAssign hands to its save()
manualAssign(query, userId, teamId, assignedBy) ==
  [assign(query, userId, teamId) EXCEPT
     !.history = Append(@, [action |-> "Manually assigned",
                            performedBy |-> assignedBy,
                            notes |-> "Manually assigned by user "
                                      \o assignedBy])]

\* assignQuery of the query controller: manualAssign with its counters,
\* then notifyQueryAssignment, which adds a notification job
AssignQuery(q, userId, teamId) ==
  /\ q \in 1..Len(store)
  /\ Len(store[q].history) < MaxHistory
  /\ store' = [store EXCEPT ![q] =
                 Save(@, @, manualAssign(@, userId, teamId, "admin"))]
  /\ users' = [users EXCEPT ![userId].totalAssigned = @ + 1]
  /\ teams' = [teams EXCEPT ![teamId].totalQueries = @ + 1]
  /\ jobs' = jobs \o addNotificationJob(q, users[userId].name).added
  /\ UNCHANGED <<faultBudget, result, sweeps, assigning, now>>
  /\ OpsFrame

\* addNote of the query controller
AddNote(q, action, notes) ==
  /\ q \in 1..Len(store)
  /\ Len(store[q].history) < MaxHistory
  /\ store' = [store EXCEPT ![q] =
                 Save(@, @, [@ EXCEPT !.history =
                   Append(@, [action |-> action, performedBy |-> "admin",
                              notes |-> notes])])]
  /\ UNCHANGED <<jobs, faultBudget, result, teams, users, sweeps, assigning, now>>
  /\ OpsFrame

\* deleteQuery of the query controller: Query.findByIdAndDelete, here while
\* no processor holds the record
DeleteQuery(q) ==
  /\ q \in 1..Len(store)
  /\ ~store[q].deleted
  /\ \A k \in 1..Len(jobs) : jobs[k].queryId = q => jobs[k].state # "active"
  /\ store' = [store EXCEPT ![q].deleted = TRUE]
  /\ UNCHANGED <<jobs, faultBudget, result, teams, users, sweeps, assigning, now>>
  /\ OpsFrame

(***************************************************************************)
(* Reference data: the teams and users the routing engine reads.           *)
(***************************************************************************)
Team(name, tags, channels, priorities, isActive) ==
  [name |-> name, handlesTags |-> tags, handlesChannels |-> channels,
   handlesPriorities |-> priorities, isActive |-> isActive, totalQueries |-> 0]

User(name, team, isActive, role, averageResponseTime) ==
  [name |-> name, team |-> team, isActive |-> isActive, role |-> role,
   averageResponseTime |-> averageResponseTime, totalAssigned |-> 0]

SupportHandles == [tags |-> {"question", "compliment", "other"},
                   channels |-> {"email", "chat"},
                   priorities |-> {"low", "medium"}]

BillingHandles == [tags |-> {"billing", "complaint"},
                   channels |-> {"email", "social_media", "phone"},
                   priorities |-> {"high", "urgent"}]

\* the Team collections the model starts from: two equal teams and an
\* inactive better match; two different teams; no team that matches
TeamSetups ==
  {<<Team("Support", SupportHandles.tags, SupportHandles.channels,
          SupportHandles.priorities, TRUE),
     Team("Care", SupportHandles.tags, SupportHandles.channels,
          SupportHandles.priorities, TRUE),
     Team("Billing", BillingHandles.tags, BillingHandles.channels,
          BillingHandles.priorities, FALSE)>>,
   <<Team("Billing", BillingHandles.tags, BillingHandles.channels,
          BillingHandles.priorities, TRUE),
     Team("Support", SupportHandles.tags, SupportHandles.channels,
          SupportHandles.priorities, TRUE)>>,
   <<Team("Archive", {}, {}, {}, TRUE),
     Team("Legacy", BillingHandles.tags, BillingHandles.channels,
          BillingHandles.priorities, FALSE)>>}

\* the User collections the model starts from: staffed teams, a second team
\* whose only member is inactive, empty rosters
UserSetups ==
  {<<User("ana", 1, TRUE, "agent", 0),
     User("ben", 1, TRUE, "specialist", 20),
     User("cy", 2, FALSE, "manager", 50),
     User("dee", 2, TRUE, "agent", 0)>>,
   <<User("ana", 1, TRUE, "agent", 0),
     User("ben", 1, TRUE, "specialist", 20),
     User("cy", 2, FALSE, "manager", 50)>>,
   <<>>}

\* the statuses an agent sets through updateStatus
AgentStatuses == {"in_progress", "resolved", "closed"}

(***************************************************************************)
(* The server with its queues created and no record yet.                   *)
(***************************************************************************)
ServerUp ==
  /\ redisUp = TRUE
  /\ phase = [p \in Procs |-> "up"]
  /\ retries = [p \in Procs |-> 0]
  /\ queues = [p \in Procs |-> AllQueues]
  /\ registered = {}
  /\ workersDone = TRUE
  /\ store = <<>>
  /\ jobs = <<>>
  /\ result = NoResult
  /\ sweeps = [w \in Sweepers |-> IdleSweep]
  /\ assigning = NoAssignments
  /\ now = 0

(***************************************************************************)
(* Routing: records are created, routed, updated and escalated by hand.    *)
(***************************************************************************)
RouteInit ==
  /\ ServerUp
  /\ faultBudget = 0
  /\ teams \in TeamSetups
  /\ users \in UserSetups

RouteNext ==
  \/ CreateQuery
  \/ \E q \in 1..Len(store) : AutoAssignQuery(q)
  \/ \E q \in 1..Len(store) : \E status \in AgentStatuses : UpdateStatus(q, status)
  \/ \E q \in 1..Len(store) : EscalateQueryCall(q)

RouteSpec == RouteInit /\ [][RouteNext]_vars

(***************************************************************************)
(* Escalation with one sweeper: sweeps follow one another.                 *)
(***************************************************************************)
StaffedTeams ==
  <<Team("Billing", BillingHandles.tags, BillingHandles.channels,
         BillingHandles.priorities, TRUE),
    Team("Support", SupportHandles.tags, SupportHandles.channels,
         SupportHandles.priorities, TRUE)>>

StaffedUsers ==
  <<User("ana", 1, TRUE, "agent", 0),
    User("ben", 1, TRUE, "specialist", 20),
    User("cy", 2, FALSE, "manager", 50),
    User("dee", 2, TRUE, "agent", 0)>>

SweepInit ==
  /\ ServerUp
  /\ faultBudget = 0
  /\ teams = StaffedTeams
  /\ users = StaffedUsers

SweepNext ==
  \/ Tick
  \/ CreateQuery
  \/ \E q \in 1..Len(store) : \E status \in AgentStatuses : UpdateStatus(q, status)
  \/ \E q \in 1..Len(store) : EscalateQueryCall(q)
  \/ SweepLoad("s1")
  \/ SweepStep("s1")
  \/ SweepReturn("s1")

SweepSpec == SweepInit /\ [][SweepNext]_vars

(***************************************************************************)
(* One sweeper whose saves may fail.                                       *)
(***************************************************************************)
FaultySweepInit ==
  /\ ServerUp
  /\ faultBudget = MaxFaults
  /\ teams = StaffedTeams
  /\ users = StaffedUsers

FaultySweepNext ==
  \/ Tick
  \/ CreateQuery
  \/ SweepLoad("s1")
  \/ SweepStep("s1")
  \/ SweepSaveFault("s1")
  \/ SweepReturn("s1")

FaultySweepSpec == FaultySweepInit /\ [][FaultySweepNext]_vars

(***************************************************************************)
(* shouldEscalate on its own: one stored record of any status, flag and   *)
(* priority level, looked at around each threshold.                        *)
(***************************************************************************)
\* the statuses of the Query schema
QueryStatuses == {"new", "assigned", "in_progress", "resolved", "closed",
                  "escalated"}

\* the levels a record may carry: the four of the schema, none, and one the
\* threshold table does not know
StoredPriorities == SeqToSet(PriorityLevels) \cup {"", "critical"}

\* minutes since the first instant at which the record is looked at: just
\* below and at each threshold, for a record received on the hour or
\* half past
EscalationInstants == {59, 60, 89, 90, 239, 240, 269, 270, 719, 720, 749, 750,
                       1439, 1440, 1469, 1470}

ReceivedInstants == {0, 30}

EscalationRecords ==
  {[NewQuery(normalizeMessage(body, body.channel)) EXCEPT
      !.status = status, !.isEscalated = flag, !.priority = priority,
      !.receivedAt = receivedAt] :
     body \in {b \in Payloads : b.subject = "Help"},
     status \in QueryStatuses, flag \in BOOLEAN,
     priority \in StoredPriorities, receivedAt \in ReceivedInstants}

EscalateCheckInit ==
  /\ redisUp = TRUE
  /\ phase = [p \in Procs |-> "up"]
  /\ retries = [p \in Procs |-> 0]
  /\ queues = [p \in Procs |-> AllQueues]
  /\ registered = {}
  /\ workersDone = TRUE
  /\ now \in EscalationInstants
  /\ \E query \in EscalationRecords : store = <<query>>
  /\ jobs = <<>>
  /\ faultBudget = 0
  /\ result = NoResult
  /\ teams = <<>>
  /\ users = <<>>
  /\ sweeps = [w \in Sweepers |-> IdleSweep]
  /\ assigning = NoAssignments

\* shouldEscalate(query) on the stored record; the outcome is kept in result
ShouldEscalateCall(q) ==
  /\ q \in 1..Len(store)
  /\ result = NoResult
  /\ result' = [op |-> "shouldEscalate", ok |-> shouldEscalate(store[q], now),
                error |-> "", id |-> q]
  /\ UNCHANGED <<store, jobs, faultBudget, teams, users, sweeps, assigning, now>>
  /\ OpsFrame

EscalateCheckNext == \E q \in 1..Len(store) : ShouldEscalateCall(q)

EscalateCheckSpec == EscalateCheckInit /\ [][EscalateCheckNext]_vars

(***************************************************************************)
(* The processors at work, one job at a time, on a record just ingested,  *)
(* while the controllers assign it, escalate it and add notes to it.       *)
(***************************************************************************)
AuditInit ==
  /\ redisUp = TRUE
  /\ phase = [p \in Procs |-> "up"]
  /\ retries = [p \in Procs |-> 0]
  /\ queues = [p \in Procs |-> AllQueues]
  /\ registered = ProcessorStages
  /\ workersDone = TRUE
  /\ now = 0
  /\ \E m \in {p \in Payloads : p.subject = "Offer"} :
       LET query == NewQuery(normalizeMessage(m, m.channel))
       IN  /\ store = <<query>>
           /\ jobs = addQueryToQueue(1, query).added
  /\ result = NoResult
  /\ faultBudget = 0
  /\ teams = <<Team("Support", SupportHandles.tags, SupportHandles.channels,
                    SupportHandles.priorities, TRUE)>>
  /\ users = <<User("ana", 1, TRUE, "agent", 0)>>
  /\ sweeps = [w \in Sweepers |-> IdleSweep]
  /\ assigning = NoAssignments

\* the controllers are called on a record while its history is short
MaxAudited == 3

Short(q) == Len(store[q].history) < MaxAudited

AuditNext ==
  \/ \E j \in 1..Len(jobs) : BeginAlone(j)
  \/ \E j \in 1..Len(jobs) : ProcessQueryRun(j)
  \/ \E j \in 1..Len(jobs) : TagRun(j)
  \/ \E j \in 1..Len(jobs) : SentimentRun(j)
  \/ \E j \in 1..Len(jobs) : PriorityRun(j)
  \/ \E j \in 1..Len(jobs) : SpamRun(j)
  \/ \E q \in 1..Len(store) : Short(q) /\ AutoAssignQuery(q)
  \/ \E q \in 1..Len(store) : Short(q) /\ AssignQuery(q, 1, 1)
  \/ \E q \in 1..Len(store) : Short(q) /\ EscalateQueryCall(q)
  \/ \E q \in 1..Len(store) :
       Short(q) /\ AddNote(q, "Note", "called the customer")

AuditSpec == AuditInit /\ [][AuditNext]_vars

(***************************************************************************)
(* The pipeline while records are deleted under it.                        *)
(***************************************************************************)
MissingNext ==
  \/ Ingest
  \/ \E q \in 1..Len(store) : DeleteQuery(q)
  \/ \E j \in 1..Len(jobs) : BeginAlone(j)
  \/ \E j \in 1..Len(jobs) : BeginMissing(j)
  \/ \E j \in 1..Len(jobs) : ProcessQueryRun(j)
  \/ \E j \in 1..Len(jobs) : TagRun(j)
  \/ \E j \in 1..Len(jobs) : SentimentRun(j)
  \/ \E j \in 1..Len(jobs) : PriorityRun(j)
  \/ \E j \in 1..Len(jobs) : SpamRun(j)

MissingSpec == WorkerInit /\ [][MissingNext]_vars

(***************************************************************************)
(* The pipeline with as many failures as exhaust the attempts of one job: *)
(* the loads and saves of the classification processors may fail, the     *)
(* adds of the fan-out do not.                                             *)
(***************************************************************************)
ExhaustInit == Subscribed /\ faultBudget = attempts

ExhaustNext ==
  \/ Ingest
  \/ \E j \in 1..Len(jobs) : BeginAlone(j)
  \/ \E j \in 1..Len(jobs) :
       jobs[j].queue \in SeqToSet(ClassStages) /\ BeginFault(j)
  \/ \E j \in 1..Len(jobs) :
       ProcessQueryRun(j) /\ faultBudget' = faultBudget
  \/ \E j \in 1..Len(jobs) : TagRun(j)
  \/ \E j \in 1..Len(jobs) : SentimentRun(j)
  \/ \E j \in 1..Len(jobs) : PriorityRun(j)
  \/ \E j \in 1..Len(jobs) : SpamRun(j)
  \/ \E j \in 1..Len(jobs) : SaveFault(j)

ExhaustSpec == ExhaustInit /\ [][ExhaustNext]_vars

(***************************************************************************)
(* Two sweepers whose sweeps may overlap.                                  *)
(***************************************************************************)
RaceNext ==
  \/ Tick
  \/ CreateQuery
  \/ \E w \in Sweepers : SweepLoad(w)
  \/ \E w \in Sweepers : SweepStep(w)
  \/ \E w \in Sweepers : SweepReturn(w)

RaceSpec == SweepInit /\ [][RaceNext]_vars

(***************************************************************************)
(* Properties.                                                             *)
(***************************************************************************)
BrokerUnavailable ==
  {QueueError(l) : l \in {"Query", "Tagging", "Sentiment", "Priority", "Spam",
                          "Notification"}}

EnqueueCallStep ==
  \/ CallAddQueryToQueue
  \/ CallAddTaggingJob
  \/ CallAddSentimentJob
  \/ CallAddPriorityJob
  \/ CallAddSpamJob
  \/ CallAddNotificationJob

\* C1: once initRedis has given up in the server process, every call of an
\* add function returns the queue-not-available error in the same step and
\* leaves the jobs of every stage as they were.
C1_EnqueueFailsFastWhenDown ==
  [][(phase["server"] = "down" /\ EnqueueCallStep)
       => (/\ ~result'.ok
           /\ result'.error \in BrokerUnavailable
           /\ jobs' = jobs)]_vars

C1_Witness ==
  /\ phase["server"] = "down"
  /\ result.op \in EnqueueOps
  /\ ~result.ok
  /\ result.error \in BrokerUnavailable
  /\ jobs = <<>>

\* C2: with the broker down, ingesting a payload with non-empty content
\* creates the record with status 'new', reports success with that record
\* and enqueues no job.
C2_IngestSucceedsWhenDown ==
  [][(phase["server"] = "down" /\ Ingest /\ store' # store)
       => (/\ result'.ok
           /\ result'.id = Len(store')
           /\ store'[Len(store')].status = "new"
           /\ jobs' = jobs)]_vars

\* the stages whose processors registerWorkers installs itself
WorkerStages ==
  {QUEUE_NAMES.QUERY_PROCESSING, QUEUE_NAMES.TAGging, QUEUE_NAMES.SENTIMENT,
   QUEUE_NAMES.PRIORITY, QUEUE_NAMES.SPAM_DETECTION}

\* C5: in the worker process, once initRedis has created the queues and
\* registerWorkers has run, each of the five processing queues has a
\* processor installed.
C5_ProcessorsInstalled ==
  (workersDone /\ phase["worker"] = "up" /\ queues["worker"] = AllQueues)
    => WorkerStages \subseteq registered

JobsOf(queue, q) ==
  {k \in 1..Len(jobs) : jobs[k].queue = queue /\ jobs[k].queryId = q}

CompletedOf(queue, q) == {k \in JobsOf(queue, q) : jobs[k].state = "completed"}

\* the jobs for record q a step has added to a stage
AddedTo(queue, q) ==
  {k \in (Len(jobs) + 1)..Len(jobs') :
     jobs'[k].queue = queue /\ jobs'[k].queryId = q}

\* C3: the step in which a primary-intake job completes adds exactly one job
\* to each of the tagging, sentiment, priority and spam stages, each with the
\* id of the job's record.
C3_FanOutOnCompletion ==
  [][\A j \in 1..Len(jobs) :
       (/\ jobs[j].queue = QUEUE_NAMES.QUERY_PROCESSING
        /\ jobs[j].state = "active"
        /\ jobs'[j].state = "completed")
         => \A i \in 1..Len(ClassStages) :
              Cardinality(AddedTo(ClassStages[i], jobs[j].queryId)) = 1]_vars

C3_Witness ==
  \E j \in 1..Len(jobs) :
    /\ jobs[j].queue = QUEUE_NAMES.QUERY_PROCESSING
    /\ jobs[j].state = "completed"
    /\ \A i \in 1..Len(ClassStages) :
         Cardinality(JobsOf(ClassStages[i], jobs[j].queryId)) = 1

\* C4: a primary-intake attempt in which some classification stage received
\* no job does not complete: the job has one more failed attempt and is
\* waiting for its retry, or failed for good once its attempts are used up.
C4_FailedAddFailsOrchestrator ==
  [][\A j \in 1..Len(jobs) :
       (/\ jobs[j].queue = QUEUE_NAMES.QUERY_PROCESSING
        /\ jobs[j].state = "active"
        /\ jobs'[j].state # "active"
        /\ \E i \in 1..Len(ClassStages) :
             AddedTo(ClassStages[i], jobs[j].queryId) = {})
         => (/\ jobs'[j].state \in {"waiting", "failed"}
             /\ jobs'[j].attemptsMade = jobs[j].attemptsMade + 1)]_vars

C4_Witness ==
  \E j \in 1..Len(jobs) :
    /\ jobs[j].queue = QUEUE_NAMES.QUERY_PROCESSING
    /\ jobs[j].state = "waiting"
    /\ jobs[j].attemptsMade = 1
    /\ \E i \in 1..Len(ClassStages) : JobsOf(ClassStages[i], jobs[j].queryId) # {}
    /\ \E i \in 1..Len(ClassStages) : JobsOf(ClassStages[i], jobs[j].queryId) = {}

\* every classification stage has completed a job for record q and holds no
\* unfinished one
AllClassified(q) ==
  \A i \in 1..Len(ClassStages) :
    /\ CompletedOf(ClassStages[i], q) # {}
    /\ CompletedOf(ClassStages[i], q) = JobsOf(ClassStages[i], q)

\* C6: once all four classification jobs of a record have completed, its
\* tags, primaryTag, priority and priorityScore are the values of tagging
\* followed by priority detection, whatever order the workers ran in.
C6_OrderIndependent ==
  \A q \in 1..Len(store) :
    AllClassified(q) =>
      LET t == analyzeAndTag(store[q].subject, store[q].content)
          p == detectPriority([store[q] EXCEPT !.tags = t.tags,
                                               !.primaryTag = t.primaryTag])
      IN  /\ store[q].tags = t.tags
          /\ store[q].primaryTag = t.primaryTag
          /\ store[q].priority = p.priority
          /\ store[q].priorityScore = p.priorityScore

CountAction(history, action) ==
  Cardinality({i \in 1..Len(history) : history[i].action = action})

\* the sub-fields of its worker that a completed job's result is stored in
ResultStored(k) ==
  LET r == store[jobs[k].queryId]
      ret == jobs[k].ret[1]
  IN  CASE jobs[k].queue = QUEUE_NAMES.TAGging ->
             r.tags = ret.tags /\ r.primaryTag = ret.primaryTag
        [] jobs[k].queue = QUEUE_NAMES.SENTIMENT -> r.sentiment = <<ret>>
        [] jobs[k].queue = QUEUE_NAMES.PRIORITY ->
             r.priority = ret.priority /\ r.priorityScore = ret.priorityScore
        [] jobs[k].queue = QUEUE_NAMES.SPAM_DETECTION -> r.spamDetection = <<ret>>
        [] OTHER -> TRUE

ClassJobsCompleted ==
  {k \in 1..Len(jobs) :
     jobs[k].queue \in SeqToSet(ClassStages) /\ jobs[k].state = "completed"}

\* C7: the record holds the result of every classification worker that has
\* saved, and one history entry for each save that pushed one, also when the
\* workers had loaded the record concurrently.
C7_NoLostUpdate ==
  /\ \A k \in ClassJobsCompleted : ResultStored(k)
  /\ \A q \in 1..Len(store) :
       /\ CountAction(store[q].history, "Auto-tagged")
            = Cardinality(CompletedOf(QUEUE_NAMES.TAGging, q))
       /\ CountAction(store[q].history, "Priority detected")
            = Cardinality(CompletedOf(QUEUE_NAMES.PRIORITY, q))
       /\ CountAction(store[q].history, "Auto-closed as spam")
            = Cardinality({k \in CompletedOf(QUEUE_NAMES.SPAM_DETECTION, q) :
                             jobs[k].ret[1].isSpam})

\* two workers that had loaded the same version of the record have both saved
C7_Witness ==
  \E k1, k2 \in ClassJobsCompleted :
    /\ k1 # k2
    /\ jobs[k1].queryId = jobs[k2].queryId
    /\ jobs[k1].seen[1].rev = jobs[k2].seen[1].rev
    /\ jobs[k1].queue = QUEUE_NAMES.SPAM_DETECTION
    /\ jobs[k1].ret[1].isSpam
    /\ jobs[k2].queue \in {QUEUE_NAMES.TAGging, QUEUE_NAMES.PRIORITY}

\* whether a completed job k0 had the inputs the active job j has loaded
SameInputs(k0, j) ==
  /\ jobs[k0].queue = jobs[j].queue
  /\ jobs[k0].queryId = jobs[j].queryId
  /\ jobs[k0].content = jobs[j].content
  /\ jobs[j].queue = QUEUE_NAMES.PRIORITY
       => /\ jobs[k0].seen[1].tags = jobs[j].snap[1].tags
          /\ jobs[k0].seen[1].primaryTag = jobs[j].snap[1].primaryTag

\* C8: when a classification worker completes a job on a record on which it
\* has already completed one with the same inputs, it returns what the first
\* run returned and the record's sub-fields hold that value.
C8_Idempotent ==
  [][\A j \in 1..Len(jobs) :
       (/\ jobs[j].state = "active"
        /\ jobs'[j].state = "completed"
        /\ jobs[j].queue \in SeqToSet(ClassStages))
         => \A k0 \in CompletedOf(jobs[j].queue, jobs[j].queryId) :
              SameInputs(k0, j)
                => (/\ jobs'[j].ret = jobs[k0].ret
                    /\ ResultStored(j)'
                    /\ (jobs[j].queue = QUEUE_NAMES.SPAM_DETECTION
                          /\ jobs[k0].ret[1].isSpam)
                         => store'[jobs[j].queryId].status = "closed")]_vars

C8_Witness ==
  \E k0, k1 \in CompletedOf(QUEUE_NAMES.PRIORITY, 1) :
    /\ k0 # k1
    /\ jobs[k0].seen[1].tags = jobs[k1].seen[1].tags
    /\ jobs[k0].seen[1].tags # <<>>
    /\ jobs[k0].ret = jobs[k1].ret
    /\ ResultStored(k1)

\* the level the thresholds give to a whole score
LevelOf(score) ==
  IF score >= 80 THEN "urgent"
  ELSE IF score >= 60 THEN "high"
  ELSE IF score >= 30 THEN "medium"
  ELSE "low"

\* C9: on a record priority detection has run on, the stored priorityScore
\* lies in 0..100 and the stored priority is the threshold level of that
\* stored score.
C9_LevelIsThresholdOfScore ==
  \A q \in 1..Len(store) :
    CountAction(store[q].history, "Priority detected") > 0
      => /\ store[q].priorityScore \in 0..100
         /\ store[q].priority = LevelOf(store[q].priorityScore)

\* C10: on a record tagging has run on, primaryTag is one of the tags, and
\* when no category scored above zero the tags are exactly <<other>> with
\* primaryTag other.
C10_PrimaryTagInTags ==
  \A q \in 1..Len(store) :
    CountAction(store[q].history, "Auto-tagged") > 0
      => /\ store[q].primaryTag \in SeqToSet(store[q].tags)
         /\ (\A i \in 1..Len(TagOrder) :
               analyzeAndTag(store[q].subject, store[q].content)
                 .scores[TagOrder[i]] = 0)
              => (store[q].tags = <<"other">> /\ store[q].primaryTag = "other")

C10_Witness ==
  \E q \in 1..Len(store) :
    /\ CountAction(store[q].history, "Auto-tagged") > 0
    /\ store[q].tags = <<"other">>
    /\ store[q].primaryTag = "other"

(***************************************************************************)
(* C11: the tagging, sentiment and priority processors never change the   *)
(* status of a record; the spam processor is the only one that does, and  *)
(* only to closed, when its verdict is spam.                               *)
(***************************************************************************)
CompletesIn(j) ==
  /\ j \in 1..Len(jobs)
  /\ jobs[j].state = "active"
  /\ jobs'[j].state = "completed"

C11_OnlySpamClosesStatus ==
  [][\A j \in 1..Len(jobs) :
       CompletesIn(j) =>
         LET q == jobs[j].queryId
         IN  IF jobs[j].queue = QUEUE_NAMES.SPAM_DETECTION
               THEN \/ store'[q].status = store[q].status
                    \/ /\ store'[q].status = "closed"
                       /\ jobs'[j].ret[1].isSpam
               ELSE store'[q].status = store[q].status]_vars

\* a record closed by the spam processor whose other classification jobs
\* have completed as well
C11_Witness ==
  \E q \in 1..Len(store) :
    /\ store[q].status = "closed"
    /\ \A queue \in SeqToSet(ClassStages) : CompletedOf(queue, q) # {}
    /\ \E k \in CompletedOf(QUEUE_NAMES.SPAM_DETECTION, q) :
         jobs[k].ret[1].isSpam

(***************************************************************************)
(* C12: autoRouteAndAssign on a record that is resolved, closed or        *)
(* already escalated changes nothing: the status, the assigned team and   *)
(* user and the counters of teams and users stay as they were.            *)
(***************************************************************************)
RoutingActions == {"Auto-routing attempted", "Assigned to team", "Auto-assigned"}

\* the step is a run of autoRouteAndAssign on the stored record q
RoutedIn(q) ==
  /\ q \in 1..Len(store)
  /\ Len(store'[q].history) = Len(store[q].history) + 1
  /\ store'[q].history[Len(store'[q].history)].action \in RoutingActions

C12_RoutingSkipsSettledRecords ==
  [][\A q \in 1..Len(store) :
       (/\ RoutedIn(q)
        /\ \/ store[q].status \in {"resolved", "closed"}
           \/ store[q].isEscalated)
       => /\ store'[q].status = store[q].status
          /\ store'[q].assignedTeam = store[q].assignedTeam
          /\ store'[q].assignedTo = store[q].assignedTo
          /\ teams' = teams
          /\ users' = users]_vars

(***************************************************************************)
(* C13: the escalation sweep never sets the status escalated on a record  *)
(* whose stored status is resolved or closed, also when the record was    *)
(* closed between the sweep's load and its save.                           *)
(***************************************************************************)
C13_SweepSparesTerminalRecords ==
  [][\A q \in 1..Len(store) :
       (sweeps' # sweeps /\ store[q].status \in {"resolved", "closed"})
       => store'[q].status # "escalated"]_vars

(***************************************************************************)
(* C14: escalation is monotonic.  Once the escalation flag of a record is *)
(* true, no run of escalateQuery or of the sweep that starts afterwards   *)
(* clears the flag, changes the escalation time or reason, or appends     *)
(* another escalation entry to the history; a sweep that starts           *)
(* afterwards does not load the record.                                    *)
(***************************************************************************)
\* the ids of the records a sweep has still to look at
Remaining(w) ==
  IF sweeps[w].state = "running"
    THEN {sweeps[w].cands[i].id : i \in sweeps[w].pos..Len(sweeps[w].cands)}
    ELSE {}

Loaded(w) == {sweeps[w].cands[i].id : i \in 1..Len(sweeps[w].cands)}

Escalation(query) ==
  [isEscalated |-> query.isEscalated,
   escalatedAt |-> query.escalatedAt,
   escalationReason |-> query.escalationReason,
   entries |-> CountAction(query.history, "Query escalated")]

C15_EscalatedOncePerRecord ==
  [][\A q \in 1..Len(store) :
       /\ CountAction(store'[q].history, "Query escalated") <= 1
       /\ store[q].escalatedAt # <<>>
          => store'[q].escalatedAt = store[q].escalatedAt]_vars

(***************************************************************************)
(* C16: every record the escalation sweep escalates leads to notification *)
(* jobs: one for each active member of the team the record is assigned    *)
(* to, and none for members when the record has no team.                   *)
(***************************************************************************)
NotificationJobs(q) ==
  {k \in 1..Len(jobs) :
     jobs[k].queue = QUEUE_NAMES.NOTIFICATION /\ jobs[k].queryId = q}

\* the notification jobs a finished sweep owes for a record it escalated
OwedNotifications(q) ==
  IF store[q].assignedTeam = NoId THEN 0
  ELSE Cardinality(TeamMembers(store[q].assignedTeam))

C16_EscalationNotifiesTeam ==
  \A w \in Sweepers :
    sweeps[w].state = "done" =>
      \A i \in 1..Len(sweeps[w].escalated) :
        Cardinality(NotificationJobs(sweeps[w].escalated[i]))
          = OwedNotifications(sweeps[w].escalated[i])

(***************************************************************************)
(* C17: when the save of one record fails during a sweep, the sweep still *)
(* evaluates and escalates every other overdue record it loaded.           *)
(***************************************************************************)
C17_SweepSurvivesFailedSave ==
  \A w \in Sweepers :
    sweeps[w].state = "aborted" =>
      \A i \in 1..Len(sweeps[w].cands) :
        (i # sweeps[w].pos /\ shouldEscalate(sweeps[w].cands[i].doc, now))
        => store[sweeps[w].cands[i].id].isEscalated

(***************************************************************************)
(* C18: for a record that is neither resolved, closed nor escalated,      *)
(* shouldEscalate is true exactly when the whole hours elapsed since      *)
(* receivedAt reach the threshold of its priority level: urgent 1, high   *)
(* 4, medium 12, low 24, and 24 for an unknown or missing level.           *)
(***************************************************************************)
\* the number of full hours in a span of minutes
WholeHours(minutes) ==
  CHOOSE h \in 0..(minutes + 1) : h * 60 <= minutes /\ minutes < (h + 1) * 60

ThresholdHours(priority) ==
  IF priority = "urgent" THEN 1
  ELSE IF priority = "high" THEN 4
  ELSE IF priority = "medium" THEN 12
  ELSE 24

C18_EscalatesAtThreshold ==
  result.op = "shouldEscalate" =>
    LET query == store[result.id]
    IN  (query.status \notin {"resolved", "closed"} /\ ~query.isEscalated)
        => (result.ok <=> WholeHours(now - query.receivedAt)
                            >= ThresholdHours(query.priority))

\* a high record exactly four hours old is escalated, and so is a record of
\* an unknown level exactly twenty-four hours old
C18_Witness ==
  /\ result.op = "shouldEscalate"
  /\ result.ok
  /\ store[1].status = "in_progress"
  /\ \/ store[1].priority = "high" /\ now - store[1].receivedAt = 240
     \/ store[1].priority = "critical" /\ now - store[1].receivedAt = 1440

(***************************************************************************)
(* C19: findBestTeam never returns a team that is not active, and         *)
(* findBestUser never returns a user who is inactive or who belongs to    *)
(* another team than the one it was given.                                 *)
(***************************************************************************)
C19_OnlyActiveTeamsAndMembers ==
  \A q \in 1..Len(store) :
    /\ LET team == findBestTeam(store[q])
       IN  team # NoId => teams[team].isActive
    /\ \A team \in 1..Len(teams) :
         LET user == findBestUser(team, store[q])
         IN  user # NoId => users[user].isActive /\ users[user].team = team

\* a record routed to a user of a team that also has an inactive member,
\* while an inactive team exists
C19_Witness ==
  \E q \in 1..Len(store) :
    /\ store[q].assignedTeam # NoId
    /\ store[q].assignedTo # NoId
    /\ store[q].assignedTo = findBestUser(store[q].assignedTeam, store[q])
    /\ \E u \in 1..Len(users) :
         ~users[u].isActive /\ users[u].team = store[q].assignedTeam
    /\ \E t \in 1..Len(teams) : ~teams[t].isActive

(***************************************************************************)
(* C20: findBestTeam returns, among the active teams, the first in        *)
(* iteration order whose score is maximal, the score being 10 for a       *)
(* handled primary tag, plus 8 for a handled channel, plus 5 for a        *)
(* handled priority, minus 0.5 for each record of that team in status     *)
(* assigned or in_progress; it returns no team unless that maximum is     *)
(* greater than 0.                                                         *)
(***************************************************************************)
\* twice the score of the claim, to stay in the integers
DoubledScore(t, query) ==
  (IF query.primaryTag \in teams[t].handlesTags THEN 2 * 10 ELSE 0)
  + (IF query.channel \in teams[t].handlesChannels THEN 2 * 8 ELSE 0)
  + (IF query.priority \in teams[t].handlesPriorities THEN 2 * 5 ELSE 0)
  - Cardinality({r \in 1..Len(store) :
                   /\ store[r].assignedTeam = t
                   /\ store[r].status \in {"assigned", "in_progress"}})

Winners(query) ==
  {t \in 1..Len(teams) :
     /\ teams[t].isActive
     /\ DoubledScore(t, query) > 0
     /\ \A o \in 1..Len(teams) :
          teams[o].isActive => DoubledScore(o, query) <= DoubledScore(t, query)}

FirstWinner(query) ==
  IF Winners(query) = {} THEN NoId
  ELSE CHOOSE t \in Winners(query) : \A o \in Winners(query) : t <= o

C20_FirstMaximalActiveTeam ==
  \A q \in 1..Len(store) : findBestTeam(store[q]) = FirstWinner(store[q])

\* two active teams share the maximal score for a stored record while
\* another record occupies a team, and the first of the two is returned
C20_Witness ==
  \E q \in 1..Len(store) :
    /\ Cardinality(Winners(store[q])) = 2
    /\ findBestTeam(store[q]) = FirstWinner(store[q])
    /\ \E r \in 1..Len(store) : \E t \in 1..Len(teams) : TeamQueryCount(t) > 0

(***************************************************************************)
(* C21: when the team findBestTeam chooses has no active user, the record *)
(* has, after autoRouteAndAssign, that team as its assigned team, no      *)
(* assigned user, the status assigned, and a new history entry saying     *)
(* that no users were available.                                           *)
(***************************************************************************)
LastEntry(query) == query.history[Len(query.history)]

NoUsersNote(team) ==
  "Auto-assigned to team: " \o teams[team].name \o " (no available users)"

C21_TeamWithoutUsers ==
  [][\A q \in 1..Len(store) :
       LET team == findBestTeam(store[q])
       IN  (RoutedIn(q) /\ team # NoId /\ TeamMembers(team) = {})
           => /\ store'[q].assignedTeam = team
              /\ store'[q].assignedTo = NoId
              /\ store'[q].status = "assigned"
              /\ LastEntry(store'[q]).notes = NoUsersNote(team)]_vars

(***************************************************************************)
(* C22: every call of autoRouteAndAssign that assigns the record to a     *)
(* team adds exactly 1 to the totalQueries of that team, and every call   *)
(* that assigns a user adds exactly 1 to the totalAssigned of that user.  *)
(***************************************************************************)
\* the step is a run of autoRouteAndAssign on record q, stored before or
\* created in this step
RoutedNow(q) ==
  /\ q \in 1..Len(store')
  /\ IF q <= Len(store) THEN RoutedIn(q)
     ELSE /\ store'[q].history # <<>>
          /\ LastEntry(store'[q]).action \in RoutingActions

C22_RoutingCountsAssignments ==
  [][\A q \in 1..Len(store') :
       RoutedNow(q) =>
         /\ LastEntry(store'[q]).action \in {"Assigned to team", "Auto-assigned"}
            => teams' = [teams EXCEPT
                           ![store'[q].assignedTeam].totalQueries = @ + 1]
         /\ LastEntry(store'[q]).action = "Auto-assigned"
            => users' = [users EXCEPT
                           ![store'[q].assignedTo].totalAssigned = @ + 1]]_vars

(***************************************************************************)
(* C23: the history of a record is append-only: for every operation (the  *)
(* classification processors, autoRouteAndAssign, manualAssign,           *)
(* escalateQuery, addNote) the history before the operation is a prefix   *)
(* of the history after it.                                                *)
(***************************************************************************)
C23_HistoryAppendOnly ==
  [][\A q \in 1..Len(store) :
       IsPrefix(store[q].history, store'[q].history)]_vars

\* a record whose history holds the entry of a processor, of a manual
\* assignment, of an escalation and of a note
C23_Witness ==
  \E q \in 1..Len(store) :
    /\ CountAction(store[q].history, "Auto-tagged") = 1
    /\ CountAction(store[q].history, "Manually assigned") = 1
    /\ CountAction(store[q].history, "Query escalated") = 1
    /\ CountAction(store[q].history, "Note") = 1

(***************************************************************************)
(* C24: each completed run of a classification processor (tagging,        *)
(* sentiment, priority, spam) appends exactly one entry to the history of *)
(* its record.                                                             *)
(***************************************************************************)
C24_OneEntryPerRun ==
  [][\A j \in 1..Len(jobs) :
       (CompletesIn(j) /\ jobs[j].queue \in SeqToSet(ClassStages))
       => Len(store'[jobs[j].queryId].history)
            = Len(store[jobs[j].queryId].history) + 1]_vars

(***************************************************************************)
(* C25: a job that refers to a record which no longer exists is marked    *)
(* failed on its first attempt and is never retried.                       *)
(***************************************************************************)
\* the step is an attempt of job j that found its record missing
MissingIn(j) ==
  /\ jobs[j].state = "waiting"
  /\ store[jobs[j].queryId].deleted
  /\ jobs'[j].attemptsMade = jobs[j].attemptsMade + 1

C25_MissingRecordFailsAtOnce ==
  [][\A j \in 1..Len(jobs) :
       MissingIn(j) => jobs[j].attemptsMade = 0 /\ jobs'[j].state = "failed"]_vars

(***************************************************************************)
(* C27: a failed attempt of a classification job (the load, the           *)
(* classification or the save throws) leaves the stored record exactly as *)
(* it was, so that after the last attempt has failed the sub-field of     *)
(* that processor still holds its prior value.                             *)
(***************************************************************************)
\* the part of a record a classification stage writes
SubField(query, queue) ==
  CASE queue = QUEUE_NAMES.TAGging -> <<query.tags, query.primaryTag>>
    [] queue = QUEUE_NAMES.SENTIMENT -> <<query.sentiment>>
    [] queue = QUEUE_NAMES.PRIORITY -> <<query.priority, query.priorityScore>>
    [] queue = QUEUE_NAMES.SPAM_DETECTION -> <<query.spamDetection>>

\* the step is a failed attempt of the classification job j
FailsIn(j) ==
  /\ jobs[j].queue \in SeqToSet(ClassStages)
  /\ jobs'[j].attemptsMade = jobs[j].attemptsMade + 1

C27_FailedAttemptLeavesRecord ==
  [][\A j \in 1..Len(jobs) :
       FailsIn(j) =>
         /\ store' = store
         /\ (jobs'[j].state = "failed"
             /\ CompletedOf(jobs[j].queue, jobs[j].queryId) = {})
            => SubField(store'[jobs[j].queryId], jobs[j].queue)
                 = SubField(NewQuery(store'[jobs[j].queryId]), jobs[j].queue)]_vars

\* the tagging job has failed for good after its third failed attempt, the
\* priority job has completed, and the record carries no tags
C27_Witness ==
  \E j \in 1..Len(jobs) :
    /\ jobs[j].queue = QUEUE_NAMES.TAGging
    /\ jobs[j].state = "failed"
    /\ jobs[j].attemptsMade = attempts
    /\ faultBudget = 0
    /\ CompletedOf(QUEUE_NAMES.PRIORITY, jobs[j].queryId) # {}
    /\ store[jobs[j].queryId].tags = <<>>
    /\ store[jobs[j].queryId].priorityScore # 50

(***************************************************************************)
(* C28: an ingestion payload whose content is missing, empty or only      *)
(* white space is rejected with an error before any record is created and *)
(* before any job is enqueued.                                             *)
(***************************************************************************)
BlankText(s) == \A i \in 1..Len(s) : SubSeq(s, i, i) = " "

C28_BlankContentRejected ==
  [][result'.op = "processIncomingMessage" =>
       /\ \A q \in (Len(store) + 1)..Len(store') :
            ~BlankText(store'[q].content)
       /\ \A k \in (Len(jobs) + 1)..Len(jobs') :
            ~BlankText(jobs'[k].content) /\ store' # store
       /\ result'.error = "Message content is required"
          => store' = store /\ jobs' = jobs /\ ~result'.ok]_vars

\* a payload was rejected for its content while nothing is stored or queued
C28_Witness ==
  /\ result.op = "processIncomingMessage"
  /\ ~result.ok
  /\ result.error = "Message content is required"
  /\ store = <<>>
  /\ jobs = <<>>

(***************************************************************************)
(* C29: in every reachable state the six stage queues of a process are    *)
(* either all constructed or all absent, and they are constructed only    *)
(* after the connection to the broker has been confirmed.                  *)
(***************************************************************************)
C29_QueuesAllOrNone ==
  \A p \in Procs :
    /\ \/ \A s \in DOMAIN queues[p] : queues[p][s]
       \/ \A s \in DOMAIN queues[p] : ~queues[p][s]
    /\ (\E s \in DOMAIN queues[p] : queues[p][s])
       => phase[p] = "up" /\ redisUp

\* one process holds its six queues, another is connected without any:
\* the creation of a queue failed there
C29_Witness ==
  \E p, o \in Procs :
    /\ \A s \in DOMAIN queues[p] : queues[p][s]
    /\ phase[o] = "up"
    /\ \A s \in DOMAIN queues[o] : ~queues[o][s]

(***************************************************************************)
(* C30: initRedis makes a bounded number of reconnect attempts: it stops  *)
(* once the retry count exceeds 3, and the delays, min(100 * retries,     *)
(* 3000) ms, never decrease.  Once it has given up the adapter stays down *)
(* for the rest of the process: no later operation constructs a queue.    *)
(***************************************************************************)
RetryDelay(n) == IF 100 * n < 3000 THEN 100 * n ELSE 3000

C30_BoundedReconnectThenDown ==
  [][\A p \in Procs :
       /\ retries'[p] # retries[p]
          => /\ retries'[p] = retries[p] + 1
             /\ retries[p] <= 3
             /\ reconnectStrategy(retries[p]) = RetryDelay(retries[p])
             /\ retries[p] > 0
                => reconnectStrategy(retries[p] - 1)
                     <= reconnectStrategy(retries[p])
       /\ phase[p] = "down"
          => /\ phase'[p] = "down"
             /\ retries'[p] = retries[p]
             /\ \A s \in DOMAIN queues'[p] : ~queues'[p][s]]_vars

\* the server gave up after its fourth retry, and an enqueue operation
\* called afterwards found no queue
C30_Witness ==
  /\ phase["server"] = "down"
  /\ retries["server"] = 4
  /\ result.op \in EnqueueOps
  /\ ~result.ok
  /\ \A s \in DOMAIN queues["server"] : ~queues["server"][s]

(***************************************************************************)
(* Health endpoint: GET /api/health in server/index.js.  The handler      *)
(* reads mongoose.connection.readyState and nothing else; the response's  *)
(* status text is kept in result.error and its HTTP code in result.id.    *)
(***************************************************************************)
\* mongoose.connection.readyState: 0 disconnected, 1 connected,
\* 2 connecting, 3 disconnecting
ReadyStates == 0..3

HealthResponse(readyState) ==
  LET mongoStatus == IF readyState = 1 THEN "connected" ELSE "disconnected"
  IN  [op |-> "health",
       ok |-> mongoStatus = "connected",
       error |-> IF mongoStatus = "connected" THEN "OK" ELSE "WARNING",
       id |-> IF mongoStatus = "connected" THEN 200 ELSE 503]

HealthCheck ==
  /\ \E readyState \in ReadyStates : result' = HealthResponse(readyState)
  /\ UNCHANGED <<redisUp, phase, retries, queues, registered, workersDone,
                 store, jobs, faultBudget>>
  /\ RoutingFrame

HealthNext ==
  \/ Next
  \/ HealthCheck

HealthSpec == Init /\ [][HealthNext]_vars

(***************************************************************************)
(* C31: whenever the broker adapter is down (no queue was created), the   *)
(* health signal reports the pipeline as degraded rather than OK.         *)
(***************************************************************************)
C31_HealthShowsBrokerDown ==
  [][(/\ result' # result
      /\ result'.op = "health"
      /\ phase["server"] = "down"
      /\ \A s \in DOMAIN queues["server"] : ~queues["server"][s])
     => result'.error # "OK"]_vars

(***************************************************************************)
(* Status updates, one call after another, on a record that was ingested  *)
(* while the clock advances.                                               *)
(***************************************************************************)
StatusInit ==
  /\ redisUp = TRUE
  /\ phase = [p \in Procs |-> "up"]
  /\ retries = [p \in Procs |-> 0]
  /\ queues = [p \in Procs |-> AllQueues]
  /\ registered = {}
  /\ workersDone = TRUE
  /\ now = 0
  /\ \E m \in {p \in Payloads : p.content # ""} :
       store = <<NewQuery(normalizeMessage(m, m.channel))>>
  /\ jobs = <<>>
  /\ result = NoResult
  /\ faultBudget = 0
  /\ teams = StaffedTeams
  /\ users = StaffedUsers
  /\ sweeps = [w \in Sweepers |-> IdleSweep]
  /\ assigning = NoAssignments

StatusNext ==
  \/ Tick
  \/ \E q \in 1..Len(store) : \E status \in AgentStatuses : UpdateStatus(q, status)

StatusSpec == StatusInit /\ [][StatusNext]_vars

(***************************************************************************)
(* C32: across any sequence of updateStatus calls on a record, the        *)
(* first-response timestamp and the response-time minutes are set by the  *)
(* first transition into in_progress, to the time of that call and the    *)
(* minutes elapsed since the record was received, and no later status     *)
(* update changes them, a later re-entry into in_progress included.       *)
(***************************************************************************)
StatusUpdates(q) ==
  SelectSeq(store[q].history, LAMBDA h : h.action = "Status updated")

C32_FirstResponseStampedOnce ==
  [][\A q \in 1..Len(store) :
       /\ store[q].firstResponseAt # <<>>
          => /\ store'[q].firstResponseAt = store[q].firstResponseAt
             /\ store'[q].responseTime = store[q].responseTime
       /\ (store[q].firstResponseAt = <<>> /\ store'[q].history # store[q].history)
          => IF store'[q].status = "in_progress"
               THEN /\ store'[q].firstResponseAt = <<now>>
                    /\ store'[q].responseTime = <<now - store[q].receivedAt>>
               ELSE /\ store'[q].firstResponseAt = <<>>
                    /\ store'[q].responseTime = <<>>]_vars

\* a record answered at minute 0, resolved, and set in progress again after
\* the clock moved on
C32_Witness ==
  \E q \in 1..Len(store) :
    /\ now = 720
    /\ store[q].status = "in_progress"
    /\ store[q].firstResponseAt = <<0>>
    /\ store[q].responseTime = <<0>>
    /\ Len(StatusUpdates(q)) >= 3
    /\ StatusUpdates(q)[1].notes = "in_progress"
    /\ StatusUpdates(q)[2].notes = "resolved"

(***************************************************************************)
(* C33: every successful assignment of a record to a user, whether made   *)
(* by autoRouteAndAssign or by manual assignment, enqueues a notification *)
(* job for that user.                                                      *)
(***************************************************************************)
NotifiedIn(q, u) ==
  \E j \in (Len(jobs) + 1)..Len(jobs') :
    /\ jobs'[j].queue = QUEUE_NAMES.NOTIFICATION
    /\ jobs'[j].queryId = q
    /\ jobs'[j].content = users[u].name

C33_AssignmentNotifiesUser ==
  [][\A q \in 1..Len(store) :
       (/\ store'[q].assignedTo # 0
        /\ store'[q].assignedTo # store[q].assignedTo)
       => NotifiedIn(q, store'[q].assignedTo)]_vars

(***************************************************************************)
(* Primary intake on its own: the integrator ingests a message, and       *)
(* addQueryToQueue is called for stored records of any priority level.    *)
(***************************************************************************)
IntakeRecords ==
  {[NewQuery(normalizeMessage(body, body.channel)) EXCEPT !.priority = priority] :
     body \in {b \in Payloads : b.subject = "Help"},
     priority \in StoredPriorities}

IntakeInit ==
  /\ redisUp = TRUE
  /\ phase = [p \in Procs |-> "up"]
  /\ retries = [p \in Procs |-> 0]
  /\ queues = [p \in Procs |-> AllQueues]
  /\ registered = {}
  /\ workersDone = TRUE
  /\ now = 0
  /\ store \in {<<>>} \cup {<<a>> : a \in IntakeRecords}
                \cup {<<a, b>> : a \in IntakeRecords, b \in IntakeRecords}
  /\ jobs = <<>>
  /\ faultBudget = 0
  /\ result = NoResult
  /\ teams = <<>>
  /\ users = <<>>
  /\ sweeps = [w \in Sweepers |-> IdleSweep]
  /\ assigning = NoAssignments

IntakeNext ==
  \/ Ingest
  \/ CallAddQueryToQueue

IntakeSpec == IntakeInit /\ [][IntakeNext]_vars

(***************************************************************************)
(* C34: the numeric priority given to a primary-intake job is the mapping *)
(* of the record's priority level at enqueue time: urgent 10, high 7,     *)
(* medium 4, low 1, and 4 for a missing or unknown level.                  *)
(***************************************************************************)
MappedPriority(level) ==
  IF level = "urgent" THEN 10
  ELSE IF level = "high" THEN 7
  ELSE IF level = "low" THEN 1
  ELSE 4

C34_IntakePriorityFromLevel ==
  [][\A j \in (Len(jobs) + 1)..Len(jobs') :
       jobs'[j].queue = QUEUE_NAMES.QUERY_PROCESSING
       => jobs'[j].priority = MappedPriority(store'[jobs'[j].queryId].priority)]_vars

\* primary-intake jobs were enqueued for an urgent record and for a record
\* whose level the table does not know
C34_Witness ==
  \E j, k \in 1..Len(jobs) :
    /\ jobs[j].queue = QUEUE_NAMES.QUERY_PROCESSING
    /\ store[jobs[j].queryId].priority = "urgent"
    /\ jobs[j].priority = 10
    /\ jobs[k].queue = QUEUE_NAMES.QUERY_PROCESSING
    /\ store[jobs[k].queryId].priority \in {"", "critical"}
    /\ jobs[k].priority = 4

(***************************************************************************)
(* detectSpam on its own: one stored record whose content is put together *)
(* from a phrase and a run of links, in lower or in upper case.           *)
(***************************************************************************)
SpamPhrases ==
  <<[lower |-> "", upper |-> "", keywords |-> 0],
    [lower |-> "hello there", upper |-> "HELLO THERE", keywords |-> 0],
    [lower |-> "viagra", upper |-> "VIAGRA", keywords |-> 1],
    [lower |-> "free money", upper |-> "FREE MONEY", keywords |-> 1],
    [lower |-> "viagra cialis", upper |-> "VIAGRA CIALIS", keywords |-> 2],
    [lower |-> "weight loss get rich quick",
     upper |-> "WEIGHT LOSS GET RICH QUICK", keywords |-> 2],
    [lower |-> "viagra cialis act now", upper |-> "VIAGRA CIALIS ACT NOW",
     keywords |-> 3],
    [lower |-> "viagra cialis act now free money",
     upper |-> "VIAGRA CIALIS ACT NOW FREE MONEY", keywords |-> 4]>>

LinkRuns ==
  <<[lower |-> "", upper |-> "", links |-> 0],
    [lower |-> " http", upper |-> " HTTP", links |-> 1],
    [lower |-> " http http http", upper |-> " HTTP HTTP HTTP", links |-> 3],
    [lower |-> " http http http http", upper |-> " HTTP HTTP HTTP HTTP",
     links |-> 4]>>

SpamCases ==
  {[text |-> p.lower \o l.lower, keywords |-> p.keywords, links |-> l.links,
    capitals |-> FALSE] : p \in SeqToSet(SpamPhrases), l \in SeqToSet(LinkRuns)}
  \cup
  {[text |-> p.upper \o l.upper, keywords |-> p.keywords, links |-> l.links,
    capitals |-> TRUE] : p \in SeqToSet(SpamPhrases), l \in SeqToSet(LinkRuns)}

SpamCheckInit ==
  /\ redisUp = TRUE
  /\ phase = [p \in Procs |-> "up"]
  /\ retries = [p \in Procs |-> 0]
  /\ queues = [p \in Procs |-> AllQueues]
  /\ registered = {}
  /\ workersDone = TRUE
  /\ now = 0
  /\ \E c \in SpamCases :
       store = <<[NewQuery([subject |-> "No Subject", content |-> "x",
                            channel |-> "email"]) EXCEPT !.content = c.text]>>
  /\ jobs = <<>>
  /\ faultBudget = 0
  /\ result = NoResult
  /\ teams = <<>>
  /\ users = <<>>
  /\ sweeps = [w \in Sweepers |-> IdleSweep]
  /\ assigning = NoAssignments

\* detectSpam(content) on the stored record's content; the verdict is kept
\* in result.ok and the score in result.id
DetectSpamCall(q) ==
  /\ q \in 1..Len(store)
  /\ result = NoResult
  /\ LET spamResult == detectSpamText(store[q].content)
     IN  result' = [op |-> "detectSpam", ok |-> spamResult.isSpam,
                    error |-> "", id |-> spamResult.spamScore]
  /\ UNCHANGED <<store, jobs, faultBudget, teams, users, sweeps, assigning, now>>
  /\ OpsFrame

SpamCheckNext == \E q \in 1..Len(store) : DetectSpamCall(q)

SpamCheckSpec == SpamCheckInit /\ [][SpamCheckNext]_vars

(***************************************************************************)
(* C35: the spam verdict is true if and only if the cumulative spam score *)
(* (+1 per spam keyword found, +2 if the uppercase ratio is above 0.5 and *)
(* the length above 20, +2 for more than 3 link tokens) is at least 3.    *)
(***************************************************************************)
CaseOf(text) == CHOOSE c \in SpamCases : c.text = text

\* the score the case was built to have: every letter of an upper-case
\* text is a capital, and letters outnumber the blanks in all of them
ExpectedSpamScore(c) ==
  c.keywords
  + (IF c.capitals /\ Len(c.text) > 20 THEN 2 ELSE 0)
  + (IF c.links > 3 THEN 2 ELSE 0)

C35_SpamIffScoreAtLeast3 ==
  result.op = "detectSpam"
  => LET expected == ExpectedSpamScore(CaseOf(store[1].content))
     IN  /\ result.id = expected
         /\ result.ok <=> expected >= 3

\* one keyword in a text of capitals longer than 20 characters: the score
\* is exactly 3 and the verdict is spam
C35_Witness ==
  /\ result.op = "detectSpam"
  /\ result.id = 3
  /\ result.ok
  /\ CaseOf(store[1].content).keywords = 1
  /\ CaseOf(store[1].content).capitals

(***************************************************************************)
(* Dequeue order: two stored records of any priority level, jobs added to *)
(* the primary-intake and the tagging queue, and the processors taking    *)
(* them.                                                                   *)
(***************************************************************************)
DequeueInit ==
  /\ redisUp = TRUE
  /\ phase = [p \in Procs |-> "up"]
  /\ retries = [p \in Procs |-> 0]
  /\ queues = [p \in Procs |-> AllQueues]
  /\ registered = ProcessorStages
  /\ workersDone = TRUE
  /\ now = 0
  /\ store \in {<<a, b>> : a \in IntakeRecords, b \in IntakeRecords}
  /\ jobs = <<>>
  /\ faultBudget = 0
  /\ result = NoResult
  /\ teams = <<>>
  /\ users = <<>>
  /\ sweeps = [w \in Sweepers |-> IdleSweep]
  /\ assigning = NoAssignments

DequeueNext ==
  \/ CallAddQueryToQueue
  \/ CallAddTaggingJob
  \/ \E j \in 1..Len(jobs) : Begin(j)

DequeueSpec == DequeueInit /\ [][DequeueNext]_vars

(***************************************************************************)
(* C36: within one stage queue, of two jobs waiting at the same time the  *)
(* job whose record has the higher priority level (urgent 10 > high 7 >   *)
(* medium 4 > low 1) is dequeued first.                                    *)
(***************************************************************************)
C36_HigherLevelDequeuedFirst ==
  [][\A j \in 1..Len(jobs) :
       (jobs[j].state = "waiting" /\ jobs'[j].state = "active")
       => \A k \in 1..Len(jobs) :
            (/\ k # j
             /\ jobs[k].queue = jobs[j].queue
             /\ jobs[k].state = "waiting")
            => MappedPriority(store[jobs[k].queryId].priority)
                 <= MappedPriority(store[jobs[j].queryId].priority)]_vars

(***************************************************************************)
(* C37: when findBestTeam returns no team, autoRouteAndAssign leaves the  *)
(* record's status, assigned team and assigned user and all team and user *)
(* counters unchanged, and appends exactly one history note saying that   *)
(* no suitable team was found.                                             *)
(***************************************************************************)
\* the record as autoRouteAndAssign received it: the stored one, or the one
\* createQuery had just built, which is new and unassigned
BeforeRouting(q) ==
  IF q <= Len(store) THEN store[q]
  ELSE [store'[q] EXCEPT !.status = "new", !.assignedTeam = NoId,
                         !.assignedTo = NoId,
                         !.history = SubSeq(@, 1, Len(@) - 1)]

C37_NoTeamLeavesRecordAlone ==
  [][\A q \in 1..Len(store') :
       (RoutedNow(q) /\ findBestTeam(BeforeRouting(q)) = NoId)
       => /\ store'[q].status = BeforeRouting(q).status
          /\ store'[q].assignedTeam = BeforeRouting(q).assignedTeam
          /\ store'[q].assignedTo = BeforeRouting(q).assignedTo
          /\ teams' = teams
          /\ users' = users
          /\ SubSeq(store'[q].history, 1, Len(store'[q].history) - 1)
               = BeforeRouting(q).history
          /\ LastEntry(store'[q]).action = "Auto-routing attempted"
          /\ LastEntry(store'[q]).notes
               = "No suitable team found for auto-assignment"]_vars

\* a new record that was routed while no team matched it: it is still new
\* and unassigned and carries the note
C37_Witness ==
  \E q \in 1..Len(store) :
    /\ store[q].history # <<>>
    /\ LastEntry(store[q]).action = "Auto-routing attempted"
    /\ store[q].status = "new"
    /\ store[q].assignedTeam = NoId
    /\ store[q].assignedTo = NoId
    /\ findBestTeam(store[q]) = NoId

(***************************************************************************)
(* C38: during ingestion the record is persisted with status "new" before *)
(* its primary-intake job is enqueued, so no primary-intake job ever      *)
(* references a record that has not been stored.                           *)
(***************************************************************************)
C38_RecordStoredBeforeIntakeJob ==
  [][\A j \in (Len(jobs) + 1)..Len(jobs') :
       jobs'[j].queue = QUEUE_NAMES.QUERY_PROCESSING
       => /\ jobs'[j].queryId \in 1..Len(store')
          /\ Len(store') > Len(store)
             => /\ jobs'[j].queryId = Len(store')
                /\ store'[jobs'[j].queryId].status = "new"]_vars

\* a message was ingested: its record is stored as new and its
\* primary-intake job is waiting
C38_Witness ==
  /\ result.op = "processIncomingMessage"
  /\ result.ok
  /\ result.id \in 1..Len(store)
  /\ store[result.id].status = "new"
  /\ \E j \in 1..Len(jobs) :
       /\ jobs[j].queue = QUEUE_NAMES.QUERY_PROCESSING
       /\ jobs[j].queryId = result.id

(***************************************************************************)
(* Assignments side by side.  autoRouteAndAssign and manualAssign read a  *)
(* user and a team document, add one to the counter in memory and save    *)
(* the document; between the read and the save they await, so another     *)
(* request handler may run.  Each handler here carries out one assignment *)
(* in two steps: up to the read of the user document, and from there on.  *)
(***************************************************************************)
Unhandled(q) == \A h \in Handlers : assigning[h].q # q

\* autoRouteAndAssign up to findBestUser: the team and the user are found
\* and their documents are in memory; without a team or a user there is
\* no counter to update and the record is saved at once
RouteBegin(h, q) ==
  /\ assigning[h].state = "idle"
  /\ q \in 1..Len(store)
  /\ Unhandled(q)
  /\ LET team == findBestTeam(store[q])
         user == IF team = NoId THEN NoId ELSE findBestUser(team, store[q])
     IN  IF user = NoId
           THEN /\ autoRouteAndAssign(q, store[q])
                /\ assigning' = [assigning EXCEPT ![h] =
                     [IdleAssignment EXCEPT !.state = "done", !.kind = "auto",
                                            !.q = q]]
           ELSE /\ assigning' = [assigning EXCEPT ![h] =
                     [state |-> "loaded", kind |-> "auto", q |-> q,
                      doc |-> <<store[q]>>, user |-> user, team |-> team,
                      totalAssigned |-> users[user].totalAssigned,
                      totalQueries |-> teams[team].totalQueries]]
                /\ UNCHANGED <<store, teams, users>>
  /\ UNCHANGED <<jobs, faultBudget, result, sweeps, now>>
  /\ OpsFrame

\* the rest of autoRouteAndAssign: user.stats.totalAssigned += 1 and
\* team.stats.totalQueries += 1 on the documents in memory, and the saves
RouteFinish(h) ==
  /\ assigning[h].state = "loaded"
  /\ assigning[h].kind = "auto"
  /\ LET a == assigning[h]
     IN  /\ store' = [store EXCEPT ![a.q] =
                        Save(@, a.doc[1], RoutedQuery(a.doc[1], a.team, a.user))]
         /\ users' = [users EXCEPT ![a.user].totalAssigned = a.totalAssigned + 1]
         /\ teams' = [teams EXCEPT ![a.team].totalQueries = a.totalQueries + 1]
  /\ assigning' = [assigning EXCEPT ![h].state = "done"]
  /\ UNCHANGED <<jobs, faultBudget, result, sweeps, now>>
  /\ OpsFrame

\* manualAssign up to User.findById(userId)
ManualBegin(h, q, userId, teamId) ==
  /\ assigning[h].state = "idle"
  /\ q \in 1..Len(store)
  /\ Unhandled(q)
  /\ assigning' = [assigning EXCEPT ![h] =
       [state |-> "loaded", kind |-> "manual", q |-> q, doc |-> <<store[q]>>,
        user |-> userId, team |-> teamId,
        totalAssigned |-> users[userId].totalAssigned,
        totalQueries |-> 0]]
  /\ UNCHANGED <<store, teams, users, jobs, faultBudget, result, sweeps, now>>
  /\ OpsFrame

\* the rest of manualAssign: the user document in memory is saved with its
\* counter raised, then the team is read, raised and saved, then the query
ManualFinish(h) ==
  /\ assigning[h].state = "loaded"
  /\ assigning[h].kind = "manual"
  /\ LET a == assigning[h]
     IN  /\ store' = [store EXCEPT ![a.q] =
                        Save(@, a.doc[1],
                             manualAssign(a.doc[1], a.user, a.team, "admin"))]
         /\ users' = [users EXCEPT ![a.user].totalAssigned = a.totalAssigned + 1]
         /\ teams' = [teams EXCEPT ![a.team].totalQueries = @ + 1]
  /\ assigning' = [assigning EXCEPT ![h].state = "done"]
  /\ UNCHANGED <<jobs, faultBudget, result, sweeps, now>>
  /\ OpsFrame

\* the records createQuery stores without autoAssign
CreatedRecords ==
  {applyPriorityToQuery(applyTagsToQuery(
     [NewQuery(normalizeMessage(body, body.channel)) EXCEPT !.receivedAt = 0])) :
     body \in {b \in Payloads : b.subject # "" /\ b.content # ""}}

ConcurrentInit ==
  /\ redisUp = TRUE
  /\ phase = [p \in Procs |-> "up"]
  /\ retries = [p \in Procs |-> 0]
  /\ queues = [p \in Procs |-> AllQueues]
  /\ registered = {}
  /\ workersDone = TRUE
  /\ now = 0
  /\ store \in {<<a, b>> : a \in CreatedRecords, b \in CreatedRecords}
  /\ jobs = <<>>
  /\ faultBudget = 0
  /\ result = NoResult
  /\ teams = StaffedTeams
  /\ users = StaffedUsers
  /\ sweeps = [w \in Sweepers |-> IdleSweep]
  /\ assigning = NoAssignments

ConcurrentNext ==
  \/ \E h \in Handlers : \E q \in 1..Len(store) : RouteBegin(h, q)
  \/ \E h \in Handlers : RouteFinish(h)
  \/ \E h \in Handlers : \E q \in 1..Len(store) :
       \E userId \in {u \in 1..Len(users) : users[u].isActive} :
         ManualBegin(h, q, userId, users[userId].team)
  \/ \E h \in Handlers : ManualFinish(h)

ConcurrentSpec == ConcurrentInit /\ [][ConcurrentNext]_vars

(***************************************************************************)
(* C39: when several assignments (autoRouteAndAssign or manualAssign, on  *)
(* different records) to the same user or team run concurrently, no       *)
(* counter increment is lost: after all of them have completed,           *)
(* user.stats.totalAssigned and team.stats.totalQueries have grown by     *)
(* exactly the number of assignments made.                                 *)
(***************************************************************************)
AssignmentsTo(field, id) ==
  Cardinality({h \in Handlers : assigning[h].state = "done"
                                /\ assigning[h][field] = id})

C39_NoLostCounterIncrement ==
  (\A h \in Handlers : assigning[h].state = "done")
  => /\ \A u \in 1..Len(users) :
          users[u].totalAssigned = AssignmentsTo("user", u)
     /\ \A t \in 1..Len(teams) :
          teams[t].totalQueries = AssignmentsTo("team", t)

=============================================================================
